---- MODULE Spec2Model ----
(***************************************************************************)
(* A model of dectalk-bot: the voice generator (src/src/dectalk.rs), the   *)
(* voice cache (src/src/voice_manager.rs) and the WAV analysis and         *)
(* normalisation of src/src/main.rs.                                       *)
(*                                                                         *)
(* A u64 is the set of the positions (0..63) of its one bits: the generator*)
(* only XORs, permutes and reduces such words, and TLC's integers are 32   *)
(* bits wide.                                                              *)
(***************************************************************************)
EXTENDS Integers, Sequences, FiniteSets, TLC

VARIABLES
    \* DectalkVoice::generate (dectalk.rs:258-354), one step per parameter
    seed,           \* the 25-word buffer `seed`; what a call leaves behind is dead
    gen_call,       \* the running call's arguments [player_id, seed], or None
    gen_perms,      \* keccakf applications of the running call so far
    drawn,          \* the parameters the running call has computed, in order
    words,          \* seed[0] as each of them was computed
    generated,      \* the profile the last call returned, or None
    calls           \* the calls returned so far: [player_id, seed, voice]

\* Option<T>: None is the empty sequence, Some(x) the sequence of x alone.
None == <<>>

Some(x) == <<x>>

gen_vars == <<seed, gen_call, gen_perms, drawn, words, generated, calls>>

VARIABLES
    \* get_wav_duration (main.rs:297-345), one step per read
    wav_bytes,      \* the argument, a byte buffer [bytes, fill]
    wav_input,      \* what wav_bytes was built from (not read by the function)
    wav             \* the call: its position (pc), cursor, locals and result

wav_vars == <<wav_bytes, wav_input, wav>>

VARIABLES
    \* normalize_wav_volume (main.rs:382-406), one step per sample
    norm_input,     \* the argument as hound decodes it: [readable, spec, samples]
    norm            \* the call: its position (pc), locals and result

norm_vars == <<norm_input, norm>>

VARIABLES
    \* VoiceManager (voice_manager.rs) and the tasks that call it
    voices,         \* the map behind the `voices` mutex: id -> profile
    rolls,          \* the map behind the `rolls` mutex: id -> roll
    voices_lock,    \* the task holding the `voices` mutex, or None
    rolls_lock,     \* the task holding the `rolls` mutex, or None
    rolls_file,     \* data/rolls.json: Some(map) or None when there is no file
    tasks,          \* per task: the call it is making and its position (pc)
    vm_returned,    \* the call that returned in the last step, with its result, or None
    vm_calls        \* the number of calls made so far

vm_vars == <<voices, rolls, voices_lock, rolls_lock, rolls_file, tasks, vm_returned, vm_calls>>

VARIABLES
    \* The derivation of one parameter's constants (dectalk.rs:138-250)
    rt              \* [field, bits, a, b]: the presets; pc, range, min, max

rt_vars == <<rt>>

VARIABLES
    \* VoiceAllocator (voice_allocator.rs)
    alloc,          \* the struct: voices, user_voices, next_voice_index; panicked
    alloc_history   \* the calls made on it so far, in order: [op, user_id, ret]

alloc_vars == <<alloc, alloc_history>>

VARIABLES
    \* The event handlers (main.rs:50-259), one task per event
    handlers,           \* per task: the event it handles and its position (pc)
    call_lock,          \* per guild: the task holding the lock of the guild's Call, or None
    guild_users_lock,   \* the task holding the lock of the GuildUsersKey map, or None
    guild_users,        \* the GuildUsersKey map: guild -> set of users
    songbird_calls,     \* songbird's manager: guild -> "idle" or "joined", for the Calls it has
    hd_out,             \* what the last step asked of the Call (play, leave), or None
    hd_events           \* the number of events received so far

hd_vars ==
    <<handlers, call_lock, guild_users_lock, guild_users, songbird_calls, hd_out, hd_events>>

vars == <<gen_vars, wav_vars, norm_vars, vm_vars, rt_vars, alloc_vars, hd_vars>>

\* What the steps of one part leave alone: the variables of the other parts.
gen_others == <<wav_vars, norm_vars, vm_vars, rt_vars, alloc_vars, hd_vars>>

wav_others == <<gen_vars, norm_vars, vm_vars, rt_vars, alloc_vars, hd_vars>>

norm_others == <<gen_vars, wav_vars, vm_vars, rt_vars, alloc_vars, hd_vars>>

vm_others == <<gen_vars, wav_vars, norm_vars, rt_vars, alloc_vars, hd_vars>>

rt_others == <<gen_vars, wav_vars, norm_vars, vm_vars, alloc_vars, hd_vars>>

alloc_others == <<gen_vars, wav_vars, norm_vars, vm_vars, rt_vars, hd_vars>>

hd_others == <<gen_vars, wav_vars, norm_vars, vm_vars, rt_vars, alloc_vars>>

----------------------------------------------------------------------------
(* 64-bit words *)

WordBits == 0..63

XOR64(a, b) == {i \in WordBits : (i \in a) # (i \in b)}

AND64(a, b) == {i \in WordBits : i \in a /\ i \in b}

NOT64(a) == {i \in WordBits : i \notin a}

\* u64::rotate_left
ROTL64(a, n) == {(i + n) % 64 : i \in a}

\* The u64 whose value is the natural number n < 2^31.
U64(n) == {i \in 0..30 : (n \div (2 ^ i)) % 2 = 1}

\* Byte k (0 = least significant) of the word w.
U64Byte(w, k) ==
    LET Bit(j) == IF (8 * k + j) \in w THEN 2 ^ j ELSE 0
    IN  Bit(0) + Bit(1) + Bit(2) + Bit(3) + Bit(4) + Bit(5) + Bit(6) + Bit(7)

\* word % m for 0 < m <= 65536, most significant byte first (every intermediate
\* value stays below 2^24).
U64Mod(w, m) ==
    LET H(acc, k) == (256 * acc + U64Byte(w, k)) % m
    IN  H(H(H(H(H(H(H(H(0, 7), 6), 5), 4), 3), 2), 1), 0)

\* The function f with every value computed: TLC keeps [x \in S |-> e] unevaluated,
\* and 24 rounds of lanes that each recompute their arguments never end.
Eager(f) == f @@ <<>>

----------------------------------------------------------------------------
(* tiny_keccak::keccakf, the Keccak-f[1600] permutation (FIPS 202) on 25    *)
(* lanes, lane (x, y) at index x + 5y.                                      *)

Lanes == 0..24

KeccakRC ==
    << {0},
       {1, 7, 15},
       {1, 3, 7, 15, 63},
       {15, 31, 63},
       {0, 1, 3, 7, 15},
       {0, 31},
       {0, 7, 15, 31, 63},
       {0, 3, 15, 63},
       {1, 3, 7},
       {3, 7},
       {0, 3, 15, 31},
       {1, 3, 31},
       {0, 1, 3, 7, 15, 31},
       {0, 1, 3, 7, 63},
       {0, 3, 7, 15, 63},
       {0, 1, 15, 63},
       {1, 15, 63},
       {7, 63},
       {1, 3, 15},
       {1, 3, 31, 63},
       {0, 7, 15, 31, 63},
       {7, 15, 63},
       {0, 31},
       {3, 15, 31, 63} >>

\* Rotation offsets, KeccakRho[x + 5y + 1]
KeccakRho ==
    <<  0,  1, 62, 28, 27,
       36, 44,  6, 55, 20,
        3, 10, 43, 25, 39,
       41, 45, 15, 21,  8,
       18,  2, 61, 56, 14 >>

XOR64x5(a0, a1, a2, a3, a4) ==
    {i \in WordBits :
        ((((i \in a0) # (i \in a1)) # (i \in a2)) # (i \in a3)) # (i \in a4)}

\* c1 ^ rotl(c2, 1)
XorRotl1(c1, c2) == {i \in WordBits : (i \in c1) # (((i + 63) % 64) \in c2)}

\* b0 ^ (~b1 & b2)
XorAndNot(b0, b1, b2) == {j \in WordBits : (j \in b0) # (j \notin b1 /\ j \in b2)}

\* theta: C[x] is the parity of column x, D[x] = C[x-1] ^ rotl(C[x+1], 1).
KeccakTheta(a) ==
    LET C == Eager([x \in 0..4 |-> XOR64x5(a[x], a[x + 5], a[x + 10], a[x + 15], a[x + 20])])
        D == Eager([x \in 0..4 |-> XorRotl1(C[(x + 4) % 5], C[(x + 1) % 5])])
    IN  Eager([i \in Lanes |-> XOR64(a[i], D[i % 5])])

\* rho and pi: B[y, 2x + 3y] = rotl(a[x, y], r[x, y]), read backwards: the lane that
\* lands on (X, Y) comes from x = (X + 3Y) mod 5, y = X.
KeccakRhoPi(a) ==
    Eager([i \in Lanes |->
        LET X == i % 5
            Y == i \div 5
            x == (X + 3 * Y) % 5
            y == X
        IN  ROTL64(a[x + 5 * y], KeccakRho[x + 5 * y + 1])])

\* chi: a[x, y] = B[x, y] ^ (~B[x+1, y] & B[x+2, y])
KeccakChi(b) ==
    Eager([i \in Lanes |->
        LET x == i % 5
            y == i \div 5
        IN  XorAndNot(b[i], b[((x + 1) % 5) + 5 * y], b[((x + 2) % 5) + 5 * y])])

KeccakIota(a, round) == Eager([a EXCEPT ![0] = XOR64(@, KeccakRC[round])])

KeccakRound(a, round) == KeccakIota(KeccakChi(KeccakRhoPi(KeccakTheta(a))), round)

RECURSIVE KeccakRounds(_, _)
KeccakRounds(a, round) ==
    IF round > 24 THEN a
    ELSE LET b == KeccakRound(a, round)
         IN  \* the test computes b before the next round starts
             IF DOMAIN b = Lanes THEN KeccakRounds(b, round + 1) ELSE b

\* The initial buffers the model's calls start from, and the 19 permutations
\* each goes through, computed once: keccakf below looks its argument up here
\* first, and computes the permutation when it is not there.
PlayerIds == {U64(1), {1, 63}}

Rolls == {U64(0), {0, 1, 63}}

RECURSIVE KeccakChain(_, _)
KeccakChain(a, n) ==
    IF n = 0 THEN <<>>
    ELSE LET b == KeccakRounds(a, 1)
         IN  (a :> b) @@ KeccakChain(b, n - 1)

RECURSIVE KeccakChains(_)
KeccakChains(ws) ==
    IF ws = {} THEN <<>>
    ELSE LET w == CHOOSE x \in ws : TRUE
         IN  KeccakChain(Eager([i \in Lanes |-> w]), 19) @@ KeccakChains(ws \ {w})

KeccakMemo == KeccakChains({XOR64(id, roll) : id \in PlayerIds, roll \in Rolls})

keccakf(a) == IF a \in DOMAIN KeccakMemo THEN KeccakMemo[a] ELSE KeccakRounds(a, 1)

----------------------------------------------------------------------------
(* dectalk.rs: the presets and the derived ranges *)

\* The fields of DectalkVoice in the order generate draws them, and their widths.
Fields ==
    << "average_pitch", "assertiveness", "fourth_formant_bandwidth",
       "fifth_formant_bandwidth", "baseline_fall", "breathiness",
       "fourth_formant_resonance", "fifth_formant_resonance", "hat_rise", "head_size",
       "laryngealization", "lax_breathiness", "num_fixed_samples_open_glottis",
       "pitch_range", "quickness", "richness", "smoothness", "stress_rise", "sex" >>

FieldNames == {Fields[k] : k \in 1..Len(Fields)}

FieldBits ==
    [average_pitch |-> 16, assertiveness |-> 8, fourth_formant_bandwidth |-> 16,
     fifth_formant_bandwidth |-> 16, baseline_fall |-> 16, breathiness |-> 8,
     fourth_formant_resonance |-> 16, fifth_formant_resonance |-> 16, hat_rise |-> 16,
     head_size |-> 8, laryngealization |-> 8, lax_breathiness |-> 8,
     num_fixed_samples_open_glottis |-> 16, pitch_range |-> 8, quickness |-> 8,
     richness |-> 8, smoothness |-> 8, stress_rise |-> 16, sex |-> 8]

PAUL_VOICE ==
    [average_pitch |-> 112, assertiveness |-> 100, fourth_formant_bandwidth |-> 280,
     fifth_formant_bandwidth |-> 330, baseline_fall |-> 18, breathiness |-> 0,
     fourth_formant_resonance |-> 3300, fifth_formant_resonance |-> 3650, hat_rise |-> 18,
     head_size |-> 100, laryngealization |-> 0, lax_breathiness |-> 0,
     num_fixed_samples_open_glottis |-> 10, pitch_range |-> 100, quickness |-> 40,
     richness |-> 70, smoothness |-> 30, stress_rise |-> 25, sex |-> 1]

WENDY_VOICE ==
    [average_pitch |-> 195, assertiveness |-> 55, fourth_formant_bandwidth |-> 300,
     fifth_formant_bandwidth |-> 2048, baseline_fall |-> 10, breathiness |-> 45,
     fourth_formant_resonance |-> 4600, fifth_formant_resonance |-> 2500, hat_rise |-> 18,
     head_size |-> 100, laryngealization |-> 0, lax_breathiness |-> 80,
     num_fixed_samples_open_glottis |-> 15, pitch_range |-> 100, quickness |-> 20,
     richness |-> 70, smoothness |-> 20, stress_rise |-> 22, sex |-> 1]

U16_MAX == 65535

U8_MAX == 255

const_u16_max(num1, num2) == IF num1 > num2 THEN num1 ELSE num2

const_u16_min(num1, num2) == IF num1 < num2 THEN num1 ELSE num2

const_u16_range(num1, num2) == const_u16_max(num1, num2) - const_u16_min(num1, num2)

const_u16_clamped_subtract(num1, num2) == IF num2 > num1 THEN 0 ELSE num1 - num2

const_u16_clamped_add(num1, num2) ==
    IF num2 > U16_MAX - num1 THEN U16_MAX ELSE num1 + num2

const_u8_max(num1, num2) == IF num1 > num2 THEN num1 ELSE num2

const_u8_min(num1, num2) == IF num1 < num2 THEN num1 ELSE num2

\* The range with a floor of 1, so that no range is a single value
const_u8_range_floor(num1, num2) ==
    IF num1 = num2 THEN 1 ELSE const_u8_max(num1, num2) - const_u8_min(num1, num2)

const_u8_range(num1, num2) == const_u8_max(num1, num2) - const_u8_min(num1, num2)

\* The subtraction without the clamp, wrapping as u8 arithmetic does
const_u8_wrapping_subtract(num1, num2) == (num1 - num2) % (U8_MAX + 1)

const_u8_clamped_subtract(num1, num2) == IF num2 > num1 THEN 0 ELSE num1 - num2

const_u8_clamped_add(num1, num2) ==
    IF num2 > U8_MAX - num1 THEN U8_MAX ELSE num1 + num2

\* <FIELD>_RANGE, <FIELD>_MIN and <FIELD>_MAX of field f (dectalk.rs:138-250): each
\* is derived from the field's own two preset values with the functions of the
\* field's width.
FIELD_RANGE(f) ==
    IF FieldBits[f] = 16
    THEN const_u16_range(PAUL_VOICE[f], WENDY_VOICE[f])
    ELSE const_u8_range(PAUL_VOICE[f], WENDY_VOICE[f])

FIELD_MIN(f) ==
    IF FieldBits[f] = 16
    THEN const_u16_clamped_subtract(PAUL_VOICE[f], FIELD_RANGE(f))
    ELSE const_u8_clamped_subtract(PAUL_VOICE[f], FIELD_RANGE(f))

FIELD_MAX(f) ==
    IF FieldBits[f] = 16
    THEN const_u16_clamped_add(PAUL_VOICE[f], FIELD_RANGE(f))
    ELSE const_u8_clamped_add(PAUL_VOICE[f], FIELD_RANGE(f))

\* The preset pairs the constants are derived from, and other pairs of each
\* width around the bounds of the type.
PresetPairs ==
    {[field |-> f, bits |-> FieldBits[f], a |-> PAUL_VOICE[f], b |-> WENDY_VOICE[f]] :
        f \in FieldNames}

EdgeValues(bits) ==
    IF bits = 16 THEN {0, 1, 300, 40000, U16_MAX - 1, U16_MAX}
    ELSE {0, 1, 100, 200, U8_MAX - 1, U8_MAX}

EdgePairs ==
    UNION {[field : {""}, bits : {bits}, a : EdgeValues(bits), b : EdgeValues(bits)] :
        bits \in {8, 16}}

\* A derivation before its first constant.
RangeCall(in) ==
    [field |-> in.field, bits |-> in.bits, a |-> in.a, b |-> in.b,
     pc |-> "range", range |-> 0, min |-> 0, max |-> 0]

\* const <FIELD>_RANGE = const_uN_range(PAUL_VOICE.f, WENDY_VOICE.f)
DeriveRange ==
    /\ rt.pc = "range"
    /\ rt' = [rt EXCEPT !.range = IF rt.bits = 16 THEN const_u16_range(rt.a, rt.b)
                                  ELSE const_u8_range(rt.a, rt.b),
                        !.pc = "min"]
    /\ UNCHANGED rt_others

\* const <FIELD>_MIN = const_uN_clamped_subtract(PAUL_VOICE.f, <FIELD>_RANGE)
DeriveMin ==
    /\ rt.pc = "min"
    /\ rt' = [rt EXCEPT !.min = IF rt.bits = 16 THEN const_u16_clamped_subtract(rt.a, rt.range)
                                ELSE const_u8_clamped_subtract(rt.a, rt.range),
                        !.pc = "max"]
    /\ UNCHANGED rt_others

\* const <FIELD>_MAX = const_uN_clamped_add(PAUL_VOICE.f, <FIELD>_RANGE)
DeriveMax ==
    /\ rt.pc = "max"
    /\ rt' = [rt EXCEPT !.max = IF rt.bits = 16 THEN const_u16_clamped_add(rt.a, rt.range)
                                ELSE const_u8_clamped_add(rt.a, rt.range),
                        !.pc = "done"]
    /\ UNCHANGED rt_others

\* u64_to_range with the width one too large
u64_to_range_wide(min, max, value) == min + U64Mod(value, max - min + 2)

\* min + (value % (max - min + 1)) on u64: min and max are at most 65535, so
\* nothing wraps when min <= max; value is a 64-bit word.
u64_to_range(min, max, value) == min + U64Mod(value, max - min + 1)

\* `as u16`, `as u8`: the low bits of the u64.
CastTo(bits, v) == v % (2 ^ bits)

----------------------------------------------------------------------------
(* DectalkVoice::generate *)

\* dectalk.rs:333-353: the struct built from the 19 locals
VoiceOf(values) == [f \in FieldNames |-> values[CHOOSE k \in 1..Len(Fields) : Fields[k] = f]]

\* generate with a buffer that outlives the call and absorbs the new arguments
GenerateCall_absorb(player_id, roll) ==
    /\ gen_call = None
    /\ gen_call' = Some([player_id |-> player_id, seed |-> roll])
    /\ seed' = Eager([i \in Lanes |-> XOR64(seed[i], XOR64(player_id, roll))])
    /\ gen_perms' = 0
    /\ drawn' = <<>>
    /\ words' = <<>>
    /\ UNCHANGED <<generated, calls, gen_others>>

\* generate with a buffer seeded from the identity alone
GenerateCall_no_roll(player_id, roll) ==
    /\ gen_call = None
    /\ gen_call' = Some([player_id |-> player_id, seed |-> roll])
    /\ seed' = Eager([i \in Lanes |-> player_id])
    /\ gen_perms' = 0
    /\ drawn' = <<>>
    /\ words' = <<>>
    /\ UNCHANGED <<generated, calls, gen_others>>

\* dectalk.rs:259  let mut seed = [player_id ^ seed; 25];
GenerateCall(player_id, roll) ==
    /\ gen_call = None
    /\ gen_call' = Some([player_id |-> player_id, seed |-> roll])
    /\ seed' = Eager([i \in Lanes |-> XOR64(player_id, roll)])
    /\ gen_perms' = 0
    /\ drawn' = <<>>
    /\ words' = <<>>
    /\ UNCHANGED <<generated, calls, gen_others>>

\* A draw that permutes the buffer twice
GenerateDraw_twice ==
    /\ gen_call # None
    /\ Len(drawn) < Len(Fields)
    /\ LET f == Fields[Len(drawn) + 1]
           permuted == keccakf(keccakf(seed))
       IN  /\ seed' = permuted
           /\ gen_perms' = gen_perms + 2
           /\ words' = Append(words, permuted[0])
           /\ drawn' = Append(drawn,
                    CastTo(FieldBits[f], u64_to_range(FIELD_MIN(f), FIELD_MAX(f), permuted[0])))
    /\ UNCHANGED <<gen_call, generated, calls, gen_others>>

\* dectalk.rs:260-331, one parameter: keccakf(&mut seed), then
\* u64_to_range(<FIELD>_MIN as u64, <FIELD>_MAX as u64, seed[0]) as u16 (or u8).
GenerateDraw ==
    /\ gen_call # None
    /\ Len(drawn) < Len(Fields)
    /\ LET f == Fields[Len(drawn) + 1]
           permuted == keccakf(seed)
       IN  /\ seed' = permuted
           /\ gen_perms' = gen_perms + 1
           /\ words' = Append(words, permuted[0])
           /\ drawn' = Append(drawn,
                    CastTo(FieldBits[f], u64_to_range(FIELD_MIN(f), FIELD_MAX(f), permuted[0])))
    /\ UNCHANGED <<gen_call, generated, calls, gen_others>>

\* dectalk.rs:333-354: the profile is returned; the buffer goes out of scope.
GenerateReturn ==
    /\ gen_call # None
    /\ Len(drawn) = Len(Fields)
    /\ generated' = Some(VoiceOf(drawn))
    /\ calls' = calls \cup {[player_id |-> gen_call[1].player_id, seed |-> gen_call[1].seed,
                             voice |-> VoiceOf(drawn)]}
    /\ gen_call' = None
    /\ UNCHANGED <<seed, gen_perms, drawn, words, gen_others>>

\* dectalk.rs:260-331 as a function of the buffer: the parameters from the k-th on
RECURSIVE GenerateDraws(_, _)
GenerateDraws(buffer, k) ==
    IF k > Len(Fields) THEN <<>>
    ELSE LET f == Fields[k]
             permuted == keccakf(buffer)
         IN  <<CastTo(FieldBits[f], u64_to_range(FIELD_MIN(f), FIELD_MAX(f), permuted[0]))>>
                 \o GenerateDraws(permuted, k + 1)

\* DectalkVoice::generate as a function of its arguments (dectalk.rs:258-354)
GenerateProfile(player_id, roll) ==
    VoiceOf(GenerateDraws(Eager([i \in Lanes |-> XOR64(player_id, roll)]), 1))

\* The profiles of the arguments the model calls generate with, computed once.
GenerateMemo == Eager([a \in PlayerIds \X Rolls |-> GenerateProfile(a[1], a[2])])

generate(player_id, roll) ==
    IF <<player_id, roll>> \in DOMAIN GenerateMemo
    THEN GenerateMemo[<<player_id, roll>>]
    ELSE GenerateProfile(player_id, roll)

----------------------------------------------------------------------------
(* f64 *)

\* An f64 that is the quotient of two integers: NaN, +infinity, or the exact
\* rational num/den in lowest terms. The rounding of a quotient to 53 bits is
\* not represented; every value here is non-negative.
F64(num, den) == [class |-> "finite", num |-> num, den |-> den]

F64Inf == [class |-> "inf", num |-> 1, den |-> 0]

F64NaN == [class |-> "nan", num |-> 0, den |-> 0]

RECURSIVE GCD(_, _)
GCD(a, b) == IF b = 0 THEN a ELSE GCD(b, a % b)

\* `n as f64` for an unsigned integer n: exact.
F64FromInt(n) == F64(n, 1)

\* x / (n as f64) for an unsigned integer n
F64DivInt(x, n) ==
    CASE x.class = "nan" -> F64NaN
      [] x.class = "inf" -> F64Inf
      [] n = 0 -> IF x.num = 0 THEN F64NaN ELSE F64Inf
      [] OTHER -> LET g == GCD(x.num, x.den * n)
                  IN  F64(x.num \div g, (x.den * n) \div g)

----------------------------------------------------------------------------
(* get_wav_duration: the buffer *)

TagRIFF == <<82, 73, 70, 70>>

TagWAVE == <<87, 65, 86, 69>>

TagFmt == <<102, 109, 116, 32>>

TagData == <<100, 97, 116, 97>>

\* A buffer is [bytes, fill]: the bytes, followed by `fill` more bytes of value 1
\* (sample data nobody reads one by one).
BufLen(buf) == Len(buf.bytes) + buf.fill

ByteAt(buf, i) == IF i <= Len(buf.bytes) THEN buf.bytes[i] ELSE 1

\* Cursor<&[u8]> read_exact of n bytes at position pos: the bytes, or a failure
\* when fewer than n remain (also when pos is past the end).
ReadExact(buf, pos, n) ==
    IF pos + n <= BufLen(buf)
    THEN [ok |-> TRUE, data |-> [i \in 1..n |-> ByteAt(buf, pos + i)]]
    ELSE [ok |-> FALSE, data |-> <<>>]

u16_from_le_bytes(b) == b[1] + 256 * b[2]

u32_from_le_bytes(b) == b[1] + 256 * b[2] + 65536 * b[3] + 16777216 * b[4]

\* A cursor position no buffer of the model reaches.
PastEnd == 2 ^ 30

\* cursor.position() + (chunk_size as u64) for the chunk_size in the bytes b, a
\* u64 sum that cannot wrap. No buffer has 2^30 bytes, a read at any position
\* from there on fails alike, and so all of them are PastEnd (TLC's integers
\* end at 2^31 - 1).
SkipFrom(position, b) ==
    IF b[4] >= 64 \/ position >= PastEnd THEN PastEnd
    ELSE position + u32_from_le_bytes(b)

----------------------------------------------------------------------------
(* get_wav_duration: the function, one operator per read *)

WavNone == [kind |-> "None", value |-> F64NaN]

WavSome(d) == [kind |-> "Some", value |-> d]

\* The thread unwinds: a slice index out of range.
WavPanic == [kind |-> "panic", value |-> F64NaN]

WavRunning == [kind |-> "running", value |-> F64NaN]

WavReturn(p, r) == [p EXCEPT !.pc = "done", !.result = r]

\* main.rs:298  let mut cursor = Cursor::new(wav_bytes);
WavCall ==
    [pc |-> "riff_header", cursor |-> 0, header |-> <<>>, fmt_chunk_size |-> 0,
     audio_format |-> 0, sample_rate |-> 0, block_align |-> 0, scans |-> 0,
     result |-> WavRunning]

\* main.rs:300-305
StepRiffHeader(buf, p) ==
    LET r == ReadExact(buf, p.cursor, 12)
    IN  IF ~r.ok THEN WavReturn(p, WavNone)
        ELSE IF SubSeq(r.data, 1, 4) # TagRIFF \/ SubSeq(r.data, 9, 12) # TagWAVE
        THEN WavReturn([p EXCEPT !.cursor = @ + 12], WavNone)
        ELSE [p EXCEPT !.cursor = @ + 12, !.pc = "fmt_header"]

\* main.rs:307-314
StepFmtHeader(buf, p) ==
    LET r == ReadExact(buf, p.cursor, 8)
    IN  IF ~r.ok THEN WavReturn(p, WavNone)
        ELSE IF SubSeq(r.data, 1, 4) # TagFmt
        THEN WavReturn([p EXCEPT !.cursor = @ + 8], WavNone)
        ELSE [p EXCEPT !.cursor = @ + 8, !.pc = "fmt_data",
                       !.fmt_chunk_size = u32_from_le_bytes(SubSeq(r.data, 5, 8))]

\* StepFmtData without the test of the format code
StepFmtData_anycodec(buf, p) ==
    LET r == ReadExact(buf, p.cursor, p.fmt_chunk_size)
        q == [p EXCEPT !.cursor = @ + p.fmt_chunk_size]
    IN  IF ~r.ok THEN WavReturn(p, WavNone)
        ELSE IF Len(r.data) < 14 THEN WavReturn(q, WavPanic)
        ELSE [q EXCEPT !.audio_format = u16_from_le_bytes(SubSeq(r.data, 1, 2)),
                       !.sample_rate = u32_from_le_bytes(SubSeq(r.data, 5, 8)),
                       !.block_align = u16_from_le_bytes(SubSeq(r.data, 13, 14)),
                       !.pc = "data_header"]

\* main.rs:316-328: fmt_chunk_data has fmt_chunk_size bytes, and the slices
\* [0..2], [4..8] and [12..14] of it panic when it is shorter than they reach.
StepFmtData(buf, p) ==
    LET r == ReadExact(buf, p.cursor, p.fmt_chunk_size)
        q == [p EXCEPT !.cursor = @ + p.fmt_chunk_size]
    IN  IF ~r.ok THEN WavReturn(p, WavNone)
        ELSE IF Len(r.data) < 2 \/ Len(r.data) < 8 \/ Len(r.data) < 14
        THEN WavReturn(q, WavPanic)
        ELSE LET audio_format == u16_from_le_bytes(SubSeq(r.data, 1, 2))
                 sample_rate == u32_from_le_bytes(SubSeq(r.data, 5, 8))
                 block_align == u16_from_le_bytes(SubSeq(r.data, 13, 14))
                 f == [q EXCEPT !.audio_format = audio_format,
                                !.sample_rate = sample_rate,
                                !.block_align = block_align]
             IN  IF audio_format # 1 THEN WavReturn(f, WavNone)
                 ELSE [f EXCEPT !.pc = "data_header"]

\* main.rs:330-331
StepDataHeader(buf, p) ==
    LET r == ReadExact(buf, p.cursor, 8)
    IN  IF ~r.ok THEN WavReturn(p, WavNone)
        ELSE [p EXCEPT !.cursor = @ + 8, !.header = r.data, !.pc = "scan"]

\* StepScan that goes on with the header it has when the read fails
StepScan_ignore_eof(buf, p) ==
    IF SubSeq(p.header, 1, 4) # TagData
    THEN LET pos == SkipFrom(p.cursor, SubSeq(p.header, 5, 8))
             r == ReadExact(buf, pos, 8)
         IN  IF ~r.ok THEN [p EXCEPT !.cursor = pos + 8, !.scans = @ + 1]
             ELSE [p EXCEPT !.cursor = pos + 8, !.header = r.data, !.scans = @ + 1]
    ELSE [p EXCEPT !.pc = "duration"]

\* StepScan that reads the next header right behind the last, payload unskipped
StepScan_no_skip(buf, p) ==
    IF SubSeq(p.header, 1, 4) # TagData
    THEN LET pos == p.cursor
             r == ReadExact(buf, pos, 8)
         IN  IF ~r.ok THEN WavReturn([p EXCEPT !.cursor = pos, !.scans = @ + 1], WavNone)
             ELSE [p EXCEPT !.cursor = pos + 8, !.header = r.data, !.scans = @ + 1]
    ELSE [p EXCEPT !.pc = "duration"]

\* main.rs:333-337, one evaluation of the loop condition and, when it holds, one
\* pass through the body.
StepScan(buf, p) ==
    IF SubSeq(p.header, 1, 4) # TagData
    THEN LET pos == SkipFrom(p.cursor, SubSeq(p.header, 5, 8))
             r == ReadExact(buf, pos, 8)
         IN  IF ~r.ok THEN WavReturn([p EXCEPT !.cursor = pos, !.scans = @ + 1], WavNone)
             ELSE [p EXCEPT !.cursor = pos + 8, !.header = r.data, !.scans = @ + 1]
    ELSE [p EXCEPT !.pc = "duration"]

\* StepDuration that takes the data size for the number of samples
StepDuration_bytes(buf, p) ==
    LET data_chunk_size == u32_from_le_bytes(SubSeq(p.header, 5, 8))
    IN  WavReturn(p, WavSome(F64DivInt(F64FromInt(data_chunk_size), p.sample_rate)))

\* main.rs:339-344
StepDuration(buf, p) ==
    LET data_chunk_size == u32_from_le_bytes(SubSeq(p.header, 5, 8))
        num_samples == F64DivInt(F64FromInt(data_chunk_size), p.block_align)
        duration == F64DivInt(num_samples, p.sample_rate)
    IN  WavReturn(p, WavSome(duration))

WavStep(buf, p) ==
    CASE p.pc = "riff_header" -> StepRiffHeader(buf, p)
      [] p.pc = "fmt_header" -> StepFmtHeader(buf, p)
      [] p.pc = "fmt_data" -> StepFmtData(buf, p)
      [] p.pc = "data_header" -> StepDataHeader(buf, p)
      [] p.pc = "scan" -> StepScan(buf, p)
      [] p.pc = "duration" -> StepDuration(buf, p)

RECURSIVE WavRun(_, _)
WavRun(buf, p) == IF p.pc = "done" THEN p ELSE WavRun(buf, WavStep(buf, p))

\* The function as a whole: what it returns for the buffer buf.
get_wav_duration(buf) == WavRun(buf, WavCall).result

----------------------------------------------------------------------------
(* get_wav_duration: the buffers it is called with *)

MaxExtraChunks == 2

TagRIFX == <<82, 73, 70, 88>>

TagAVI == <<65, 86, 73, 32>>

TagJUNK == <<74, 85, 78, 75>>

TagLIST == <<76, 73, 83, 84>>

u16_to_le_bytes(n) == <<n % 256, (n \div 256) % 256>>

u32_to_le_bytes(n) ==
    <<n % 256, (n \div 256) % 256, (n \div 65536) % 256, (n \div 16777216) % 256>>

\* Chunks between fmt and data: a tag, the length the header declares and the
\* number of payload bytes that follow it.
ExtraChunks ==
    { [tag |-> TagJUNK, size |-> 0, payload |-> 0],
      [tag |-> TagLIST, size |-> 5, payload |-> 5],
      [tag |-> TagJUNK, size |-> 9, payload |-> 2] }

\* The data chunk: whether there is one, the length its header declares and the
\* number of payload bytes that follow.
DataChunks ==
    { [present |-> FALSE, size |-> 0, payload |-> 0],
      [present |-> TRUE, size |-> 88200, payload |-> 88200],
      [present |-> TRUE, size |-> 8, payload |-> 8],
      [present |-> TRUE, size |-> 8, payload |-> 3] }

WavFormats ==
    { [sample_rate |-> 44100, block_align |-> 2],
      [sample_rate |-> 8000, block_align |-> 4],
      [sample_rate |-> 11025, block_align |-> 0] }

WavInputs ==
    [ defect : {"none", "riff", "wave", "fmt", "cut7", "cut15", "cut30"},
      fmt_size : {0, 12, 16, 18},
      audio_format : {1, 3},
      format : WavFormats,
      extras : UNION {[1..n -> ExtraChunks] : n \in 0..MaxExtraChunks},
      data : DataChunks ]

\* The payload of an extra chunk: the first n bytes of "data", a length and filler.
ExtraPayload(n) == SubSeq(TagData \o <<4, 0, 0, 0, 7>>, 1, n)

RECURSIVE ExtraBytes(_)
ExtraBytes(extras) ==
    IF extras = <<>> THEN <<>>
    ELSE LET c == Head(extras)
         IN  c.tag \o u32_to_le_bytes(c.size) \o ExtraPayload(c.payload)
                 \o ExtraBytes(Tail(extras))

\* The 18 bytes of a WAVEFORMATEX with 16-bit samples; a fmt chunk of size n holds
\* the first n.
FmtPayload(in) ==
    LET channels == IF in.format.block_align = 4 THEN 2 ELSE 1
    IN  u16_to_le_bytes(in.audio_format) \o u16_to_le_bytes(channels)
            \o u32_to_le_bytes(in.format.sample_rate)
            \o u32_to_le_bytes(in.format.sample_rate * in.format.block_align)
            \o u16_to_le_bytes(in.format.block_align) \o u16_to_le_bytes(16)
            \o u16_to_le_bytes(0)

BuildWav(in) ==
    LET body == (IF in.defect = "wave" THEN TagAVI ELSE TagWAVE)
                    \o (IF in.defect = "fmt" THEN TagLIST ELSE TagFmt)
                    \o u32_to_le_bytes(in.fmt_size)
                    \o SubSeq(FmtPayload(in), 1, in.fmt_size)
                    \o ExtraBytes(in.extras)
                    \o (IF in.data.present
                        THEN TagData \o u32_to_le_bytes(in.data.size) ELSE <<>>)
        fill == IF in.data.present THEN in.data.payload ELSE 0
        all == (IF in.defect = "riff" THEN TagRIFX ELSE TagRIFF)
                    \o u32_to_le_bytes(Len(body) + fill) \o body
        cut == CASE in.defect = "cut7" -> 7
                 [] in.defect = "cut15" -> 15
                 [] in.defect = "cut30" -> 30
                 [] OTHER -> Len(all) + fill
    IN  IF cut < Len(all)
        THEN [bytes |-> SubSeq(all, 1, cut), fill |-> 0]
        ELSE [bytes |-> all, fill |-> fill]

----------------------------------------------------------------------------
(* get_wav_duration: the call *)

ReadRiffHeader ==
    /\ wav.pc = "riff_header"
    /\ wav' = StepRiffHeader(wav_bytes, wav)
    /\ UNCHANGED <<wav_bytes, wav_input, wav_others>>

ReadFmtHeader ==
    /\ wav.pc = "fmt_header"
    /\ wav' = StepFmtHeader(wav_bytes, wav)
    /\ UNCHANGED <<wav_bytes, wav_input, wav_others>>

ReadFmtData ==
    /\ wav.pc = "fmt_data"
    /\ wav' = StepFmtData(wav_bytes, wav)
    /\ UNCHANGED <<wav_bytes, wav_input, wav_others>>

ReadDataHeader ==
    /\ wav.pc = "data_header"
    /\ wav' = StepDataHeader(wav_bytes, wav)
    /\ UNCHANGED <<wav_bytes, wav_input, wav_others>>

ScanChunk ==
    /\ wav.pc = "scan"
    /\ wav' = StepScan(wav_bytes, wav)
    /\ UNCHANGED <<wav_bytes, wav_input, wav_others>>

ComputeDuration ==
    /\ wav.pc = "duration"
    /\ wav' = StepDuration(wav_bytes, wav)
    /\ UNCHANGED <<wav_bytes, wav_input, wav_others>>

----------------------------------------------------------------------------
(* normalize_wav_volume *)

MaxSamples == 3

I16_MAX == 32767

I16_MIN == -32768

\* Result<T, E>
Ok(x) == [ok |-> TRUE, value |-> x]

Err == [ok |-> FALSE, value |-> 0]

\* Result::unwrap_or
unwrap_or(r, default) == IF r.ok THEN r.value ELSE default

i16_max(a, b) == IF a >= b THEN a ELSE b

i16_min(a, b) == IF a <= b THEN a ELSE b

\* Iterator::fold(init, i16::max)
RECURSIVE fold_i16_max(_, _)
fold_i16_max(xs, init) ==
    IF xs = <<>> THEN init ELSE fold_i16_max(Tail(xs), i16_max(init, Head(xs)))

\* Iterator::fold(init, i16::min)
RECURSIVE fold_i16_min(_, _)
fold_i16_min(xs, init) ==
    IF xs = <<>> THEN init ELSE fold_i16_min(Tail(xs), i16_min(init, Head(xs)))

\* `as i16` as the x86 conversion instruction does it: NaN and any value out of
\* range become i16::MIN
F64AsI16_indefinite(num, den) ==
    IF den = 0 THEN I16_MIN
    ELSE LET a == IF num < 0 THEN -num ELSE num
             b == IF den < 0 THEN -den ELSE den
             q == a \div b
             t == IF (num < 0) = (den < 0) THEN q ELSE -q
         IN  IF t > I16_MAX \/ t < I16_MIN THEN I16_MIN ELSE t

\* `x as i16` for the f64 x = num / den: towards zero, saturating, NaN to 0.
\* num / 0 stands for NaN (num = 0) or an infinity of num's sign.
F64AsI16(num, den) ==
    IF den = 0
    THEN IF num = 0 THEN 0 ELSE IF num > 0 THEN I16_MAX ELSE I16_MIN
    ELSE LET a == IF num < 0 THEN -num ELSE num
             b == IF den < 0 THEN -den ELSE den
             q == a \div b
             t == IF (num < 0) = (den < 0) THEN q ELSE -q
         IN  i16_max(I16_MIN, i16_min(I16_MAX, t))

\* One gain for both sides: sample / |peak| * i16::MAX
Rescale_one_gain(sample, peak, amplitude) ==
    F64AsI16(sample * I16_MAX, IF peak < 0 THEN -peak ELSE peak)

\* main.rs:392-397: sample / peak * amplitude as i16. For 16-bit operands with
\* |sample| <= |peak| the f64 expression truncates to the same integer as the
\* exact quotient sample * amplitude / peak.
Rescale(sample, peak, amplitude) == F64AsI16(sample * amplitude, peak)

NormReturn(p, r) == [p EXCEPT !.pc = "done", !.result = r]

\* The call, before its first statement.
NormCall ==
    [pc |-> "open", spec |-> None, samples |-> <<>>, max_sample |-> 0, min_sample |-> 0,
     normalized_samples |-> <<>>, divisors |-> <<>>, result |-> None]

\* main.rs:383-384: WavReader::new(..)?, reader.spec()
StepOpen(in, p) ==
    IF ~in.readable THEN NormReturn(p, Some(Err))
    ELSE [p EXCEPT !.spec = Some(in.spec), !.pc = "collect"]

\* main.rs:385: every sample that does not decode becomes 0
StepCollect(in, p) ==
    [p EXCEPT !.samples = [k \in 1..Len(in.samples) |-> unwrap_or(in.samples[k], 0)],
              !.pc = "peaks"]

\* One peak for both sides: the largest magnitude
StepPeaks_symmetric(p) ==
    LET hi == fold_i16_max(p.samples, 0)
        lo == fold_i16_min(p.samples, 0)
        peak == i16_max(hi, -lo)
    IN  [p EXCEPT !.max_sample = peak, !.min_sample = -peak, !.pc = "rescale"]

\* main.rs:386-390
StepPeaks(p) ==
    [p EXCEPT !.max_sample = fold_i16_max(p.samples, 0),
              !.min_sample = fold_i16_min(p.samples, 0),
              !.pc = "rescale"]

\* main.rs:391-398, one iteration; divisors records the denominator of the
\* division the iteration evaluates.
StepRescale(p) ==
    IF Len(p.normalized_samples) = Len(p.samples) THEN [p EXCEPT !.pc = "write"]
    ELSE LET sample == p.samples[Len(p.normalized_samples) + 1]
             peak == IF sample > 0 THEN p.max_sample ELSE p.min_sample
             amplitude == IF sample > 0 THEN I16_MAX ELSE I16_MIN
         IN  [p EXCEPT !.normalized_samples = Append(@, Rescale(sample, peak, amplitude)),
                       !.divisors = Append(@, peak)]

\* The samples written with a spec of the writer's own
StepWrite_own_spec(p) ==
    NormReturn(p, Some(Ok([spec |-> [channels |-> 1, sample_rate |-> 11025,
                                     bits_per_sample |-> 16],
                           samples |-> p.normalized_samples])))

\* main.rs:399-405: the samples written with the spec of the input
StepWrite(p) ==
    NormReturn(p, Some(Ok([spec |-> p.spec[1], samples |-> p.normalized_samples])))

WavSpecs ==
    { [channels |-> 1, sample_rate |-> 11025, bits_per_sample |-> 16],
      [channels |-> 2, sample_rate |-> 44100, bits_per_sample |-> 16] }

SampleValues == {I16_MIN, -100, -3, 0, 5, 200, I16_MAX}

\* What the sample iterator yields: a value, or an error for a sample it cannot
\* decode.
SampleResults == {Ok(v) : v \in SampleValues} \cup {Err}

SeqsUpTo(S, n) == UNION {[1..k -> S] : k \in 0..n}

NormInputs ==
    [readable : {TRUE}, spec : WavSpecs, samples : SeqsUpTo(SampleResults, MaxSamples)]
    \cup [readable : {FALSE}, spec : {CHOOSE w \in WavSpecs : TRUE}, samples : {<<>>}]

NormalizeOpen ==
    /\ norm.pc = "open"
    /\ norm' = StepOpen(norm_input, norm)
    /\ UNCHANGED <<norm_input, norm_others>>

NormalizeCollect ==
    /\ norm.pc = "collect"
    /\ norm' = StepCollect(norm_input, norm)
    /\ UNCHANGED <<norm_input, norm_others>>

NormalizePeaks ==
    /\ norm.pc = "peaks"
    /\ norm' = StepPeaks(norm)
    /\ UNCHANGED <<norm_input, norm_others>>

NormalizeRescale ==
    /\ norm.pc = "rescale"
    /\ norm' = StepRescale(norm)
    /\ UNCHANGED <<norm_input, norm_others>>

NormalizeWrite ==
    /\ norm.pc = "write"
    /\ norm' = StepWrite(norm)
    /\ UNCHANGED <<norm_input, norm_others>>

----------------------------------------------------------------------------
(* VoiceManager: get_voice and set_roll, called by concurrent tasks *)

MaxVMCalls == 2

\* Every call is made by a task of its own (an event handler), numbered in the
\* order of the calls.
Tasks == 1..MaxVMCalls

\* HashMap::insert, HashMap::remove, HashMap::get on a function
MapInsert(map, k, v) == (k :> v) @@ map

MapRemove(map, k) == [x \in (DOMAIN map) \ {k} |-> map[x]]

MapGet(map, k) == IF k \in DOMAIN map THEN Some(map[k]) ELSE None

EmptyMap == <<>>

\* A task that has not made its call, and one whose call has returned.
TaskIdle == [op |-> "none", id |-> {}, roll |-> {}, read |-> None, pc |-> "idle"]

TaskDone == [op |-> "none", id |-> {}, roll |-> {}, read |-> None, pc |-> "done"]

TaskAt(t, pc) == [tasks EXCEPT ![t].pc = pc]

\* What a call of a function without a result returns: (). Inside Ok it is
\* written 0, like the payload of Err.
Unit == [unit |-> TRUE]

\* The call of task t returns r.
TaskReturn(t, r) ==
    /\ tasks' = [tasks EXCEPT ![t] = TaskDone]
    /\ vm_returned' = Some([task |-> t, op |-> tasks[t].op, id |-> tasks[t].id,
                            roll |-> tasks[t].roll, ret |-> r])

\* The next task calls get_voice(id) or set_roll(id, roll) (main.rs:77,
\* main.rs:141), or one of the other public operations: clear_voice(id),
\* save_rolls(), load_rolls(). The call starts at the first statement of op.
VMCall(t, op, id, roll) ==
    /\ vm_calls < MaxVMCalls
    /\ t = vm_calls + 1
    /\ tasks[t].pc = "idle"
    /\ vm_calls' = vm_calls + 1
    /\ tasks' = [tasks EXCEPT ![t] =
            [op |-> op, id |-> id, roll |-> IF op = "set_roll" THEN roll ELSE {},
             read |-> None, pc |-> op]]
    /\ UNCHANGED <<voices, rolls, voices_lock, rolls_lock, rolls_file>>
    /\ vm_returned' = None
    /\ UNCHANGED vm_others

\* voice_manager.rs:21  let mut voices = self.voices.lock().await;
GetVoiceLockVoices(t) ==
    /\ tasks[t].pc = "get_voice"
    /\ voices_lock = None
    /\ voices_lock' = Some(t)
    /\ tasks' = TaskAt(t, "get_voice_lookup")
    /\ UNCHANGED <<voices, rolls, rolls_lock, rolls_file, vm_calls>>
    /\ vm_returned' = None
    /\ UNCHANGED vm_others

\* voice_manager.rs:22-24: a cached profile is returned, the guard dropped
GetVoiceLookup(t) ==
    /\ tasks[t].pc = "get_voice_lookup"
    /\ IF MapGet(voices, tasks[t].id) # None
       THEN /\ TaskReturn(t, voices[tasks[t].id])
            /\ voices_lock' = None
       ELSE /\ tasks' = TaskAt(t, "get_voice_lock_rolls")
            /\ vm_returned' = None
            /\ UNCHANGED voices_lock
    /\ UNCHANGED <<voices, rolls, rolls_lock, rolls_file, vm_calls>>
    /\ UNCHANGED vm_others

\* voice_manager.rs:27  let rolls = self.rolls.lock().await;  (voices still held)
GetVoiceLockRolls(t) ==
    /\ tasks[t].pc = "get_voice_lock_rolls"
    /\ rolls_lock = None
    /\ rolls_lock' = Some(t)
    /\ tasks' = TaskAt(t, "get_voice_generate")
    /\ UNCHANGED <<voices, rolls, voices_lock, rolls_file, vm_calls>>
    /\ vm_returned' = None
    /\ UNCHANGED vm_others

\* voice_manager.rs:28-33: generate from the stored roll or 0, cache, return;
\* both guards are dropped.
GetVoiceGenerate(t) ==
    /\ tasks[t].pc = "get_voice_generate"
    /\ LET got == MapGet(rolls, tasks[t].id)
           roll == IF got = None THEN U64(0) ELSE got[1]
           voice == generate(tasks[t].id, roll)
       IN  /\ voices' = MapInsert(voices, tasks[t].id, voice)
           /\ TaskReturn(t, voice)
    /\ voices_lock' = None
    /\ rolls_lock' = None
    /\ UNCHANGED <<rolls, rolls_file, vm_calls>>
    /\ UNCHANGED vm_others

\* voice_manager.rs:42  self.rolls.lock().await
SetRollLockRolls(t) ==
    /\ tasks[t].pc = "set_roll"
    /\ rolls_lock = None
    /\ rolls_lock' = Some(t)
    /\ tasks' = TaskAt(t, "set_roll_insert")
    /\ UNCHANGED <<voices, rolls, voices_lock, rolls_file, vm_calls>>
    /\ vm_returned' = None
    /\ UNCHANGED vm_others

\* set_roll that binds the guard of rolls to a local: it is held to the end of
\* the function
SetRollInsert_hold(t) ==
    /\ tasks[t].pc = "set_roll_insert"
    /\ rolls' = MapInsert(rolls, tasks[t].id, tasks[t].roll)
    /\ rolls_lock' = rolls_lock
    /\ tasks' = TaskAt(t, "clear_voice")
    /\ UNCHANGED <<voices, voices_lock, rolls_file, vm_calls>>
    /\ vm_returned' = None
    /\ UNCHANGED vm_others

\* voice_manager.rs:42  .insert(id, roll); the guard is dropped with the statement
SetRollInsert(t) ==
    /\ tasks[t].pc = "set_roll_insert"
    /\ rolls' = MapInsert(rolls, tasks[t].id, tasks[t].roll)
    /\ rolls_lock' = None
    /\ tasks' = TaskAt(t, "clear_voice")
    /\ UNCHANGED <<voices, voices_lock, rolls_file, vm_calls>>
    /\ vm_returned' = None
    /\ UNCHANGED vm_others

\* voice_manager.rs:43, 37  self.voices.lock().await
ClearVoiceLock(t) ==
    /\ tasks[t].pc = "clear_voice"
    /\ voices_lock = None
    /\ voices_lock' = Some(t)
    /\ tasks' = TaskAt(t, "clear_voice_remove")
    /\ UNCHANGED <<voices, rolls, rolls_lock, rolls_file, vm_calls>>
    /\ vm_returned' = None
    /\ UNCHANGED vm_others

\* clear_voice that leaves the cached profile in place
ClearVoiceRemove_keep(t) ==
    /\ tasks[t].pc = "clear_voice_remove"
    /\ voices' = voices
    /\ voices_lock' = None
    /\ IF tasks[t].op = "set_roll"
       THEN /\ tasks' = TaskAt(t, "save_rolls")
            /\ vm_returned' = None
       ELSE TaskReturn(t, Unit)
    /\ UNCHANGED <<rolls, rolls_lock, rolls_file, vm_calls>>
    /\ UNCHANGED vm_others

\* voice_manager.rs:37  .remove(&id); the guard is dropped with the statement.
\* Inside set_roll the task goes on to save_rolls (voice_manager.rs:43-44); a
\* clear_voice called on its own returns.
ClearVoiceRemove(t) ==
    /\ tasks[t].pc = "clear_voice_remove"
    /\ voices' = MapRemove(voices, tasks[t].id)
    /\ voices_lock' = None
    /\ IF tasks[t].op = "set_roll"
       THEN /\ tasks' = TaskAt(t, "save_rolls")
            /\ vm_returned' = None
       ELSE TaskReturn(t, Unit)
    /\ UNCHANGED <<rolls, rolls_lock, rolls_file, vm_calls>>
    /\ UNCHANGED vm_others

\* voice_manager.rs:44, 58  let rolls = self.rolls.lock().await;
SaveRollsLock(t) ==
    /\ tasks[t].pc = "save_rolls"
    /\ rolls_lock = None
    /\ rolls_lock' = Some(t)
    /\ tasks' = TaskAt(t, "save_rolls_serialize")
    /\ UNCHANGED <<voices, rolls, voices_lock, rolls_file, vm_calls>>
    /\ vm_returned' = None
    /\ UNCHANGED vm_others

\* save_rolls that drops the guard once the map is serialized, before the write
SaveRollsSerialize_unlock(t) ==
    /\ tasks[t].pc = "save_rolls_serialize"
    /\ tasks' = [tasks EXCEPT ![t].pc = "save_rolls_write", ![t].read = Some(rolls)]
    /\ rolls_lock' = None
    /\ UNCHANGED <<voices, rolls, voices_lock, rolls_file, vm_calls>>
    /\ vm_returned' = None
    /\ UNCHANGED vm_others

\* voice_manager.rs:59  serde_json::to_string(&*rolls)?: the text of the map as it
\* is now (a map of integers always serializes); the guard stays held.
SaveRollsSerialize(t) ==
    /\ tasks[t].pc = "save_rolls_serialize"
    /\ tasks' = [tasks EXCEPT ![t].pc = "save_rolls_write", ![t].read = Some(rolls)]
    /\ UNCHANGED <<voices, rolls, voices_lock, rolls_lock, rolls_file, vm_calls>>
    /\ vm_returned' = None
    /\ UNCHANGED vm_others

\* voice_manager.rs:60-61, 44-45: the text is written to data/rolls.json under the
\* guard and set_roll returns Ok, or the write fails and set_roll returns the
\* error; a failed write is taken to leave the file as it was.
SaveRollsWrite(t) ==
    /\ tasks[t].pc = "save_rolls_write"
    /\ \E written \in BOOLEAN :
        IF written
        THEN /\ rolls_file' = tasks[t].read
             /\ TaskReturn(t, Ok(0))
        ELSE /\ UNCHANGED rolls_file
             /\ TaskReturn(t, Err)
    /\ rolls_lock' = IF rolls_lock = Some(t) THEN None ELSE rolls_lock
    /\ UNCHANGED <<voices, rolls, voices_lock, vm_calls>>
    /\ UNCHANGED vm_others

\* voice_manager.rs:50  fs::read_to_string("data/rolls.json").await?  No lock is
\* held: without a file the call returns the error.
LoadRollsRead(t) ==
    /\ tasks[t].pc = "load_rolls"
    /\ IF rolls_file = None
       THEN TaskReturn(t, Err)
       ELSE /\ tasks' = [tasks EXCEPT ![t].pc = "load_rolls_lock", ![t].read = rolls_file]
            /\ vm_returned' = None
    /\ UNCHANGED <<voices, rolls, voices_lock, rolls_lock, rolls_file, vm_calls>>
    /\ UNCHANGED vm_others

\* voice_manager.rs:51  let mut rolls = self.rolls.lock().await;
LoadRollsLock(t) ==
    /\ tasks[t].pc = "load_rolls_lock"
    /\ rolls_lock = None
    /\ rolls_lock' = Some(t)
    /\ tasks' = TaskAt(t, "load_rolls_replace")
    /\ UNCHANGED <<voices, rolls, voices_lock, rolls_file, vm_calls>>
    /\ vm_returned' = None
    /\ UNCHANGED vm_others

\* voice_manager.rs:52-53: the map is replaced by the parsed text, or the text
\* does not parse (fs::write is not atomic and the read takes no lock) and the
\* error is returned with the map as it was; the guard is dropped.
LoadRollsReplace(t) ==
    /\ tasks[t].pc = "load_rolls_replace"
    /\ \E parsed \in BOOLEAN :
        IF parsed
        THEN /\ rolls' = tasks[t].read[1]
             /\ TaskReturn(t, Ok(0))
        ELSE /\ UNCHANGED rolls
             /\ TaskReturn(t, Err)
    /\ rolls_lock' = None
    /\ UNCHANGED <<voices, voices_lock, rolls_file, vm_calls>>
    /\ UNCHANGED vm_others

\* main.rs:266-267: the roll maps load_rolls can have read before the client
\* starts: no file (the map stays empty), or a file with one roll.
LoadedRolls == {None, Some((U64(1) :> {0, 1, 63}))}

----------------------------------------------------------------------------
(* VoiceAllocator *)

MaxAllocOps == 4

\* The user ids the allocator is called with.
AllocUsers == {11, 12, 13}

\* The palettes VoiceAllocator::new is called with; the empty one included.
Palettes == {<<>>, <<"p">>, <<"p", "h">>, <<"p", "h", "f">>}

\* voice_allocator.rs:11-17
VoiceAllocatorNew(palette) ==
    [voices |-> palette, user_voices |-> EmptyMap, next_voice_index |-> 0,
     panicked |-> FALSE]

\* A call is made: the allocator is behind a &mut, one call at a time.
CanCall == ~alloc.panicked /\ Len(alloc_history) < MaxAllocOps

Called(op, user_id, ret) ==
    alloc_history' = Append(alloc_history, [op |-> op, user_id |-> user_id, ret |-> ret])

\* get_or_insert that advances the cursor without wrapping it
get_or_insert_no_wrap(user_id) ==
    /\ CanCall
    /\ IF user_id \in DOMAIN alloc.user_voices
       THEN /\ Called("get_or_insert", user_id, Some(alloc.user_voices[user_id]))
            /\ UNCHANGED alloc
       ELSE IF alloc.next_voice_index >= Len(alloc.voices)
       THEN /\ alloc' = [alloc EXCEPT !.panicked = TRUE]
            /\ Called("get_or_insert", user_id, None)
       ELSE LET voice == alloc.voices[alloc.next_voice_index + 1]
            IN  /\ alloc' = [alloc EXCEPT
                        !.user_voices = MapInsert(@, user_id, voice),
                        !.next_voice_index = @ + 1]
                /\ Called("get_or_insert", user_id, Some(voice))
    /\ UNCHANGED alloc_others

\* voice_allocator.rs:19-28; indexing an empty palette panics (line 24).
get_or_insert(user_id) ==
    /\ CanCall
    /\ IF user_id \in DOMAIN alloc.user_voices
       THEN /\ Called("get_or_insert", user_id, Some(alloc.user_voices[user_id]))
            /\ UNCHANGED alloc
       ELSE IF alloc.next_voice_index >= Len(alloc.voices)
       THEN /\ alloc' = [alloc EXCEPT !.panicked = TRUE]
            /\ Called("get_or_insert", user_id, None)
       ELSE LET voice == alloc.voices[alloc.next_voice_index + 1]
            IN  /\ alloc' = [alloc EXCEPT
                        !.user_voices = MapInsert(@, user_id, voice),
                        !.next_voice_index = (@ + 1) % Len(alloc.voices)]
                /\ Called("get_or_insert", user_id, Some(voice))
    /\ UNCHANGED alloc_others

\* remove that gives the slot back: the cursor steps back
remove_rewind(user_id) ==
    /\ CanCall
    /\ alloc' = [alloc EXCEPT
            !.user_voices = MapRemove(@, user_id),
            !.next_voice_index = IF user_id \in DOMAIN alloc.user_voices /\ @ > 0
                                 THEN @ - 1 ELSE @]
    /\ Called("remove", user_id, None)
    /\ UNCHANGED alloc_others

\* voice_allocator.rs:30-32
remove(user_id) ==
    /\ CanCall
    /\ alloc' = [alloc EXCEPT !.user_voices = MapRemove(@, user_id)]
    /\ Called("remove", user_id, None)
    /\ UNCHANGED alloc_others

\* voice_allocator.rs:34-36: the keys, here as a set
get_users ==
    /\ CanCall
    /\ Called("get_users", 0, Some(DOMAIN alloc.user_voices))
    /\ UNCHANGED alloc
    /\ UNCHANGED alloc_others

----------------------------------------------------------------------------
(* Handler::message and Handler::voice_state_update, one task per event.      *)
(* The entries of the client's type map and songbird's manager are set before *)
(* the client starts (main.rs:278-281), so the handlers always find them. The *)
(* calls a handler makes on the VoiceManager, the speech engine and the WAV   *)
(* functions are steps with an outcome here.                                  *)

MaxHandlers == 2

Handlers == 1..MaxHandlers

Guilds == {1, 2}

Users == {1, 2}

\* env::var("DISCORD_OWNER") (main.rs:60-64)
DISCORD_OWNER == 1

\* A task before its event, and one whose handler has returned.
HandlerIdle ==
    [kind |-> "none", pc |-> "idle", guild |-> 0, user |-> 0, is_owner |-> FALSE,
     len |-> 0, duration |-> 0, normalized |-> FALSE, disconnect |-> FALSE]

HandlerDone == [HandlerIdle EXCEPT !.pc = "done"]

HandlerAt(h, pc) == [handlers EXCEPT ![h].pc = pc]

\* The locks task h holds are released: its guards go out of scope.
DropGuards(h) ==
    /\ call_lock' = [g \in Guilds |-> IF call_lock[g] = Some(h) THEN None ELSE call_lock[g]]
    /\ guild_users_lock' = IF guild_users_lock = Some(h) THEN None ELSE guild_users_lock

\* The messages a handler can receive: where and by whom, how long (content.len(),
\* at and above the limit of main.rs:83),
\* the outcome of a requested roll, whether anything is left of the content, and
\* the author's voice channel relative to the channel of the message.
Messages ==
    [guild_id : {None} \cup {Some(g) : g \in Guilds}, author : Users, len : {256, 257},
     set_roll : {"none", "ok", "err"}, empty : BOOLEAN, voice_channel : {"none", "same", "other"}]

\* main.rs:50-133: the checks before the Call is locked; manager.get_or_insert
\* makes the guild's Call if there is none.
MsgReceive(h, msg) ==
    /\ hd_events < MaxHandlers
    /\ h = hd_events + 1
    /\ hd_events' = hd_events + 1
    /\ LET is_owner == msg.author = DISCORD_OWNER
           goes_on ==
               /\ msg.guild_id # None
               /\ msg.set_roll # "err"
               /\ ~(~is_owner /\ msg.len > 256)
               /\ ~msg.empty
               /\ msg.voice_channel = "same"
       IN  IF goes_on
           THEN /\ handlers' = [handlers EXCEPT ![h] =
                        [HandlerIdle EXCEPT !.kind = "message", !.pc = "lock_call",
                            !.guild = msg.guild_id[1], !.user = msg.author,
                            !.is_owner = is_owner, !.len = msg.len]]
                /\ songbird_calls' =
                        IF msg.guild_id[1] \in DOMAIN songbird_calls THEN songbird_calls
                        ELSE MapInsert(songbird_calls, msg.guild_id[1], "idle")
           ELSE /\ handlers' = [handlers EXCEPT ![h] = HandlerDone]
                /\ UNCHANGED songbird_calls
    /\ hd_out' = None
    /\ UNCHANGED <<call_lock, guild_users_lock, guild_users>>
    /\ UNCHANGED hd_others

\* main.rs:134  let mut handler = handler_lock.lock().await;
MsgLockCall(h) ==
    /\ handlers[h].kind = "message"
    /\ handlers[h].pc = "lock_call"
    /\ call_lock[handlers[h].guild] = None
    /\ call_lock' = [call_lock EXCEPT ![handlers[h].guild] = Some(h)]
    /\ handlers' = HandlerAt(h, "synthesize")
    /\ hd_out' = None
    /\ UNCHANGED <<guild_users_lock, guild_users, songbird_calls, hd_events>>
    /\ UNCHANGED hd_others

\* The durations get_wav_duration can return for the synthesized speech, seconds:
\* the synthesizer writes its file at a fixed non-zero sample rate, so they are
\* finite; at and above the limit of main.rs:178.
Durations == {15, 16}

\* The handler with the duration limit applied to the owner instead of to
\* everyone else
MsgSynthesize_owner_limit(h) ==
    /\ handlers[h].kind = "message"
    /\ handlers[h].pc = "synthesize"
    /\ \E join_ok \in BOOLEAN,
          outcome \in {"tts_failed", "file_failed", "no_duration", "normalize_failed", "ok"},
          duration \in Durations :
        /\ songbird_calls' = IF join_ok
                              THEN [songbird_calls EXCEPT ![handlers[h].guild] = "joined"]
                              ELSE songbird_calls
        /\ IF /\ join_ok
              /\ outcome = "ok"
              /\ ~(handlers[h].is_owner /\ duration > 15)
           THEN /\ handlers' = [handlers EXCEPT ![h].pc = "lock_users",
                                                ![h].duration = duration,
                                                ![h].normalized = TRUE]
                /\ UNCHANGED <<call_lock, guild_users_lock>>
           ELSE /\ handlers' = [handlers EXCEPT ![h] = HandlerDone]
                /\ DropGuards(h)
    /\ hd_out' = None
    /\ UNCHANGED <<guild_users, hd_events>>
    /\ UNCHANGED hd_others

\* main.rs:136-197, with the Call locked: join, get_voice, tts, the file, the
\* duration and its limit, the normalisation. Any failure returns.
MsgSynthesize(h) ==
    /\ handlers[h].kind = "message"
    /\ handlers[h].pc = "synthesize"
    /\ \E join_ok \in BOOLEAN,
          outcome \in {"tts_failed", "file_failed", "no_duration", "normalize_failed", "ok"},
          duration \in Durations :
        /\ songbird_calls' = IF join_ok
                              THEN [songbird_calls EXCEPT ![handlers[h].guild] = "joined"]
                              ELSE songbird_calls
        /\ IF /\ join_ok
              /\ outcome = "ok"
              /\ ~(~handlers[h].is_owner /\ duration > 15)
           THEN /\ handlers' = [handlers EXCEPT ![h].pc = "lock_users",
                                                ![h].duration = duration,
                                                ![h].normalized = TRUE]
                /\ UNCHANGED <<call_lock, guild_users_lock>>
           ELSE /\ handlers' = [handlers EXCEPT ![h] = HandlerDone]
                /\ DropGuards(h)
    /\ hd_out' = None
    /\ UNCHANGED <<guild_users, hd_events>>
    /\ UNCHANGED hd_others

\* main.rs:199  let mut guild_users = guild_users.lock().await;  (Call still locked)
MsgLockUsers(h) ==
    /\ handlers[h].kind = "message"
    /\ handlers[h].pc = "lock_users"
    /\ guild_users_lock = None
    /\ guild_users_lock' = Some(h)
    /\ handlers' = HandlerAt(h, "play")
    /\ hd_out' = None
    /\ UNCHANGED <<call_lock, guild_users, songbird_calls, hd_events>>
    /\ UNCHANGED hd_others

\* HashMap::entry(guild).or_insert_with(HashSet::new)
EntryOrEmpty(map, g) == IF g \in DOMAIN map THEN map[g] ELSE {}

\* main.rs:200-205: the author is recorded, the track played, both guards dropped
MsgPlay(h) ==
    /\ handlers[h].kind = "message"
    /\ handlers[h].pc = "play"
    /\ guild_users' = MapInsert(guild_users, handlers[h].guild,
                            EntryOrEmpty(guild_users, handlers[h].guild) \cup {handlers[h].user})
    /\ hd_out' = Some([event |-> "play", guild |-> handlers[h].guild, user |-> handlers[h].user,
                       is_owner |-> handlers[h].is_owner, len |-> handlers[h].len,
                       duration |-> handlers[h].duration,
                       normalized |-> handlers[h].normalized])
    /\ handlers' = [handlers EXCEPT ![h] = HandlerDone]
    /\ DropGuards(h)
    /\ UNCHANGED <<songbird_calls, hd_events>>
    /\ UNCHANGED hd_others

\* The voice state updates a handler can receive: channel_id is None when the
\* user has disconnected.
VoiceStates ==
    [guild_id : {None} \cup {Some(g) : g \in Guilds}, user_id : Users, disconnect : BOOLEAN]

\* main.rs:208-223
VsuReceive(h, new) ==
    /\ hd_events < MaxHandlers
    /\ h = hd_events + 1
    /\ hd_events' = hd_events + 1
    /\ handlers' = [handlers EXCEPT ![h] =
            IF new.guild_id = None THEN HandlerDone
            ELSE [HandlerIdle EXCEPT !.kind = "voice_state_update", !.pc = "lock_users",
                      !.guild = new.guild_id[1], !.user = new.user_id,
                      !.disconnect = new.disconnect]]
    /\ hd_out' = None
    /\ UNCHANGED <<call_lock, guild_users_lock, guild_users, songbird_calls>>
    /\ UNCHANGED hd_others

\* main.rs:224  let mut guild_users = guild_users.lock().await;
VsuLockUsers(h) ==
    /\ handlers[h].kind = "voice_state_update"
    /\ handlers[h].pc = "lock_users"
    /\ guild_users_lock = None
    /\ guild_users_lock' = Some(h)
    /\ handlers' = HandlerAt(h, "update")
    /\ hd_out' = None
    /\ UNCHANGED <<call_lock, guild_users, songbird_calls, hd_events>>
    /\ UNCHANGED hd_others

\* main.rs:226-252: the user is removed if disconnected; with the set of the guild
\* empty the handler goes on to the guild's Call, if the manager has one.
VsuUpdate(h) ==
    /\ handlers[h].kind = "voice_state_update"
    /\ handlers[h].pc = "update"
    /\ LET g == handlers[h].guild
           users == IF handlers[h].disconnect
                    THEN EntryOrEmpty(guild_users, g) \ {handlers[h].user}
                    ELSE EntryOrEmpty(guild_users, g)
       IN  /\ guild_users' = MapInsert(guild_users, g, users)
           /\ IF users = {} /\ g \in DOMAIN songbird_calls
              THEN /\ handlers' = HandlerAt(h, "lock_call")
                   /\ UNCHANGED <<call_lock, guild_users_lock>>
              ELSE /\ handlers' = [handlers EXCEPT ![h] = HandlerDone]
                   /\ DropGuards(h)
    /\ hd_out' = None
    /\ UNCHANGED <<songbird_calls, hd_events>>
    /\ UNCHANGED hd_others

\* main.rs:253  let mut handler = handler_lock.lock().await;  (guild_users still locked)
VsuLockCall(h) ==
    /\ handlers[h].kind = "voice_state_update"
    /\ handlers[h].pc = "lock_call"
    /\ call_lock[handlers[h].guild] = None
    /\ call_lock' = [call_lock EXCEPT ![handlers[h].guild] = Some(h)]
    /\ handlers' = HandlerAt(h, "leave")
    /\ hd_out' = None
    /\ UNCHANGED <<guild_users_lock, guild_users, songbird_calls, hd_events>>
    /\ UNCHANGED hd_others

\* main.rs:255-258: handler.leave(), which can fail; both guards dropped
VsuLeave(h) ==
    /\ handlers[h].kind = "voice_state_update"
    /\ handlers[h].pc = "leave"
    /\ \E left \in BOOLEAN :
        songbird_calls' = IF left THEN [songbird_calls EXCEPT ![handlers[h].guild] = "idle"]
                          ELSE songbird_calls
    /\ hd_out' = Some([event |-> "leave", guild |-> handlers[h].guild, user |-> handlers[h].user,
                       is_owner |-> FALSE, len |-> 0, duration |-> 0, normalized |-> FALSE])
    /\ handlers' = [handlers EXCEPT ![h] = HandlerDone]
    /\ DropGuards(h)
    /\ UNCHANGED <<guild_users, hd_events>>
    /\ UNCHANGED hd_others

----------------------------------------------------------------------------
(* Specifications: one per part of the program, the other parts idle *)

\* No generate call is running or has run.
GenerateIdle ==
    /\ seed = Eager([i \in Lanes |-> {}])
    /\ gen_call = None
    /\ gen_perms = 0
    /\ drawn = <<>>
    /\ words = <<>>
    /\ generated = None
    /\ calls = {}

\* No get_wav_duration call has been made.
WavIdle ==
    /\ wav_input = None
    /\ wav_bytes = [bytes |-> <<>>, fill |-> 0]
    /\ wav = WavReturn(WavCall, WavNone)

\* No constant is being derived.
RangeIdle == rt = [RangeCall([field |-> "", bits |-> 8, a |-> 0, b |-> 0]) EXCEPT !.pc = "idle"]

\* No VoiceAllocator in use.
AllocIdle ==
    /\ alloc = [VoiceAllocatorNew(<<>>) EXCEPT !.panicked = TRUE]
    /\ alloc_history = <<>>

\* The client has started and no event has been received: no lock is held, the
\* map of GuildUsersKey is empty (main.rs:279) and songbird has no Call.
HandlersStarted ==
    /\ handlers = [h \in Handlers |-> HandlerIdle]
    /\ call_lock = [g \in Guilds |-> None]
    /\ guild_users_lock = None
    /\ guild_users = EmptyMap
    /\ songbird_calls = EmptyMap
    /\ hd_out = None
    /\ hd_events = 0

\* No event is received.
HandlersIdle == HandlersStarted

\* No normalize_wav_volume call has been made.
NormIdle ==
    /\ norm_input = None
    /\ norm = NormReturn(NormCall, None)

\* A VoiceManager as VoiceManager::new leaves it (voice_manager.rs:12-17), no
\* task calling it.
VoiceManagerIdle ==
    /\ voices = EmptyMap
    /\ rolls = EmptyMap
    /\ voices_lock = None
    /\ rolls_lock = None
    /\ rolls_file = None
    /\ tasks = [t \in Tasks |-> TaskIdle]
    /\ vm_returned = None
    /\ vm_calls = 0

InitGenerate ==
    /\ GenerateIdle /\ WavIdle /\ NormIdle /\ VoiceManagerIdle /\ RangeIdle /\ AllocIdle
    /\ HandlersIdle

NextGenerate ==
    \/ \E player_id \in PlayerIds, roll \in Rolls : GenerateCall(player_id, roll)
    \/ GenerateDraw
    \/ GenerateReturn

SpecGenerate == InitGenerate /\ [][NextGenerate]_vars

InitWavDuration ==
    /\ wav_input \in WavInputs
    /\ wav_bytes = BuildWav(wav_input)
    /\ wav = WavCall
    /\ GenerateIdle
    /\ NormIdle
    /\ VoiceManagerIdle
    /\ RangeIdle
    /\ AllocIdle
    /\ HandlersIdle

NextWavDuration ==
    \/ ReadRiffHeader
    \/ ReadFmtHeader
    \/ ReadFmtData
    \/ ReadDataHeader
    \/ ScanChunk
    \/ ComputeDuration

\* The call is one sequential task: it takes its next step whenever it has one.
SpecWavDuration == InitWavDuration /\ [][NextWavDuration]_vars /\ WF_vars(NextWavDuration)

InitNormalize ==
    /\ norm_input \in NormInputs
    /\ norm = NormCall
    /\ GenerateIdle
    /\ WavIdle
    /\ VoiceManagerIdle
    /\ RangeIdle
    /\ AllocIdle
    /\ HandlersIdle

NextNormalize ==
    \/ NormalizeOpen
    \/ NormalizeCollect
    \/ NormalizePeaks
    \/ NormalizeRescale
    \/ NormalizeWrite

SpecNormalize == InitNormalize /\ [][NextNormalize]_vars /\ WF_vars(NextNormalize)

\* main.rs:266-278: load_rolls has run (or failed for want of a file) before any
\* handler can call the VoiceManager.
InitVoiceManager ==
    /\ rolls_file \in LoadedRolls
    /\ rolls = IF rolls_file = None THEN EmptyMap ELSE rolls_file[1]
    /\ voices = EmptyMap
    /\ voices_lock = None
    /\ rolls_lock = None
    /\ tasks = [t \in Tasks |-> TaskIdle]
    /\ vm_returned = None
    /\ vm_calls = 0
    /\ GenerateIdle
    /\ WavIdle
    /\ NormIdle
    /\ RangeIdle
    /\ AllocIdle
    /\ HandlersIdle

VMStep(t) ==
    \/ GetVoiceLockVoices(t)
    \/ GetVoiceLookup(t)
    \/ GetVoiceLockRolls(t)
    \/ GetVoiceGenerate(t)
    \/ SetRollLockRolls(t)
    \/ SetRollInsert(t)
    \/ ClearVoiceLock(t)
    \/ ClearVoiceRemove(t)
    \/ SaveRollsLock(t)
    \/ SaveRollsSerialize(t)
    \/ SaveRollsWrite(t)

NextVoiceManager ==
    \/ \E t \in Tasks, id \in PlayerIds : VMCall(t, "get_voice", id, U64(0))
    \/ \E t \in Tasks, id \in PlayerIds, roll \in Rolls : VMCall(t, "set_roll", id, roll)
    \/ \E t \in Tasks : VMStep(t)

\* Every task that can take a step eventually takes one (the tokio scheduler
\* polls every ready task, and its Mutex is fair).
SpecVoiceManager ==
    InitVoiceManager /\ [][NextVoiceManager]_vars /\ \A t \in Tasks : WF_vars(VMStep(t))

\* The last step was not a write to data/rolls.json that failed.
WriteSucceeded == ~(vm_returned # None /\ vm_returned[1].ret = Err)

\* get_voice and set_roll calls in which every write of the file succeeds.
NextVoiceManagerWritten ==
    \/ \E t \in Tasks, id \in PlayerIds : VMCall(t, "get_voice", id, U64(0))
    \/ \E t \in Tasks, id \in PlayerIds, roll \in Rolls : VMCall(t, "set_roll", id, roll)
    \/ \E t \in Tasks : VMStep(t) /\ WriteSucceeded'

SpecVoiceManagerWritten ==
    /\ InitVoiceManager
    /\ [][NextVoiceManagerWritten]_vars
    /\ \A t \in Tasks : WF_vars(VMStep(t) /\ WriteSucceeded')

\* All five operations of the VoiceManager, as concurrent calls. Which roll is
\* set has no part in the locking: set_roll is called with one roll.
VMOpsStep(t) ==
    \/ VMStep(t)
    \/ LoadRollsRead(t)
    \/ LoadRollsLock(t)
    \/ LoadRollsReplace(t)

NextVoiceManagerOps ==
    \/ \E t \in Tasks, id \in PlayerIds : VMCall(t, "get_voice", id, U64(0))
    \/ \E t \in Tasks, id \in PlayerIds : VMCall(t, "set_roll", id, {0, 1, 63})
    \/ \E t \in Tasks, id \in PlayerIds : VMCall(t, "clear_voice", id, U64(0))
    \/ \E t \in Tasks : VMCall(t, "save_rolls", U64(0), U64(0))
    \/ \E t \in Tasks : VMCall(t, "load_rolls", U64(0), U64(0))
    \/ \E t \in Tasks : VMOpsStep(t)

SpecVoiceManagerOps ==
    InitVoiceManager /\ [][NextVoiceManagerOps]_vars /\ \A t \in Tasks : WF_vars(VMOpsStep(t))

InitRangeTable ==
    /\ rt \in {RangeCall(in) : in \in PresetPairs \cup EdgePairs}
    /\ GenerateIdle
    /\ WavIdle
    /\ NormIdle
    /\ VoiceManagerIdle
    /\ AllocIdle
    /\ HandlersIdle

NextRangeTable ==
    \/ DeriveRange
    \/ DeriveMin
    \/ DeriveMax

SpecRangeTable == InitRangeTable /\ [][NextRangeTable]_vars /\ WF_vars(NextRangeTable)

InitVoiceAllocator ==
    /\ alloc \in {VoiceAllocatorNew(palette) : palette \in Palettes}
    /\ alloc_history = <<>>
    /\ GenerateIdle
    /\ WavIdle
    /\ NormIdle
    /\ VoiceManagerIdle
    /\ RangeIdle
    /\ HandlersIdle

NextVoiceAllocator ==
    \/ \E user_id \in AllocUsers : get_or_insert(user_id)
    \/ \E user_id \in AllocUsers : remove(user_id)
    \/ get_users

SpecVoiceAllocator == InitVoiceAllocator /\ [][NextVoiceAllocator]_vars

InitHandlers ==
    /\ HandlersStarted
    /\ GenerateIdle
    /\ WavIdle
    /\ NormIdle
    /\ VoiceManagerIdle
    /\ RangeIdle
    /\ AllocIdle

HandlerStep(h) ==
    \/ MsgLockCall(h)
    \/ MsgSynthesize(h)
    \/ MsgLockUsers(h)
    \/ MsgPlay(h)
    \/ VsuLockUsers(h)
    \/ VsuUpdate(h)
    \/ VsuLockCall(h)
    \/ VsuLeave(h)

NextHandlers ==
    \/ \E h \in Handlers, msg \in Messages : MsgReceive(h, msg)
    \/ \E h \in Handlers, new \in VoiceStates : VsuReceive(h, new)
    \/ \E h \in Handlers : HandlerStep(h)

\* serenity runs every handler as a task of its own; a task that can take a step
\* eventually takes one.
SpecHandlers ==
    InitHandlers /\ [][NextHandlers]_vars /\ \A h \in Handlers : WF_vars(HandlerStep(h))

----------------------------------------------------------------------------
(* Claims about the derived ranges, under SpecRangeTable *)

Abs(n) == IF n < 0 THEN -n ELSE n

TypeMax(bits) == (2 ^ bits) - 1

\* C15: with presets A and B and delta = |A - B|, MIN is A - delta saturated at 0
\* and MAX is A + delta saturated at the maximum of the field's type (255 or
\* 65535), nothing wraps around, MIN <= MAX, and the width MAX - MIN + 1 is at
\* least 1; the constants generate uses for a field are these.
C15_SaturatingRanges ==
    rt.pc = "done" =>
        LET delta == Abs(rt.a - rt.b)
        IN  /\ rt.range = delta
            /\ rt.min = IF rt.a - delta < 0 THEN 0 ELSE rt.a - delta
            /\ rt.max = IF rt.a + delta > TypeMax(rt.bits) THEN TypeMax(rt.bits)
                        ELSE rt.a + delta
            /\ rt.min <= rt.max
            /\ rt.max - rt.min + 1 >= 1
            /\ rt.field # "" =>
                /\ FIELD_MIN(rt.field) = rt.min
                /\ FIELD_MAX(rt.field) = rt.max

\* The constants of a preset pair whose A - delta is negative have been derived
\* (fifth_formant_bandwidth, breathiness, lax_breathiness): MIN is 0.
C15_Witness ==
    /\ rt.pc = "done"
    /\ rt.field # ""
    /\ rt.a - Abs(rt.a - rt.b) < 0
    /\ rt.min = 0
    /\ rt.max > rt.a

----------------------------------------------------------------------------
(* Claims about DectalkVoice::generate, under SpecGenerate *)

\* C2: every parameter generate computes lies in [<FIELD>_MIN, <FIELD>_MAX] of its
\* field, and the cast to u16 or u8 leaves the value u64_to_range returned as it is;
\* so does every field of every profile returned.
C2_RangeContainment ==
    /\ \A k \in 1..Len(drawn) :
          LET f == Fields[k]
          IN  /\ FIELD_MIN(f) <= drawn[k]
              /\ drawn[k] <= FIELD_MAX(f)
              /\ drawn[k] = u64_to_range(FIELD_MIN(f), FIELD_MAX(f), words[k])
    /\ \A c \in calls : \A f \in FieldNames :
          FIELD_MIN(f) <= c.voice[f] /\ c.voice[f] <= FIELD_MAX(f)

\* A profile has been returned whose fifth_formant_bandwidth does not fit a u8 and
\* whose assertiveness is strictly inside its range.
C2_Witness ==
    \E c \in calls :
        /\ c.voice.fifth_formant_bandwidth > U8_MAX
        /\ FIELD_MIN("assertiveness") < c.voice.assertiveness
        /\ c.voice.assertiveness < FIELD_MAX("assertiveness")

\* C3: generate is deterministic: two returned calls with the same (identity, roll)
\* returned the same profile, and a running call with the arguments of a returned
\* one has computed the same value for every parameter it has got to, whatever
\* calls ran before it.
C3_Deterministic ==
    /\ \A c1, c2 \in calls :
          (c1.player_id = c2.player_id /\ c1.seed = c2.seed) => c1.voice = c2.voice
    /\ gen_call # None =>
          \A c \in calls :
              (c.player_id = gen_call[1].player_id /\ c.seed = gen_call[1].seed) =>
                  \A k \in 1..Len(drawn) : drawn[k] = c.voice[Fields[k]]

\* A call has computed all its parameters, a call with the same arguments returned
\* before it, and the last call to return before it was one that returned another
\* profile.
C3_Witness ==
    /\ gen_call # None
    /\ Len(drawn) = Len(Fields)
    /\ generated # None
    /\ \E c \in calls :
          /\ c.player_id = gen_call[1].player_id
          /\ c.seed = gen_call[1].seed
          /\ generated # Some(c.voice)

\* The order of the parameters the claim states.
C16_Order ==
    << "average_pitch", "assertiveness", "fourth_formant_bandwidth",
       "fifth_formant_bandwidth", "baseline_fall", "breathiness",
       "fourth_formant_resonance", "fifth_formant_resonance", "hat_rise", "head_size",
       "laryngealization", "lax_breathiness", "num_fixed_samples_open_glottis",
       "pitch_range", "quickness", "richness", "smoothness", "stress_rise", "sex" >>

\* Word 0 of the buffer after 1, 2, .. n applications of the permutation
RECURSIVE WordsAfter(_, _)
WordsAfter(buffer, n) ==
    IF n = 0 THEN <<>>
    ELSE LET b == keccakf(buffer)
         IN  <<b[0]>> \o WordsAfter(b, n - 1)

\* w_1 .. w_n for the arguments of a call
StreamOf(player_id, roll, n) ==
    WordsAfter(Eager([i \in Lanes |-> XOR64(player_id, roll)]), n)

\* MIN_k + (w mod (MAX_k - MIN_k + 1))
ParameterOf(k, w) ==
    LET f == C16_Order[k]
    IN  FIELD_MIN(f) + U64Mod(w, FIELD_MAX(f) - FIELD_MIN(f) + 1)

\* C16: generate permutes the buffer exactly once before each draw and draws in
\* the fixed order: after k draws it has permuted k times, and the k-th parameter
\* of the order is MIN_k + (w_k mod (MAX_k - MIN_k + 1)), w_k word 0 of the buffer
\* after exactly k permutations of the buffer of identity XOR roll; so is the field
\* of that name of every profile returned, sex (the 19th) included.
C16_DrawOrder ==
    /\ gen_perms = Len(drawn)
    /\ Len(words) = Len(drawn)
    /\ gen_call # None =>
          LET w == StreamOf(gen_call[1].player_id, gen_call[1].seed, Len(drawn))
          IN  \A k \in 1..Len(drawn) : words[k] = w[k] /\ drawn[k] = ParameterOf(k, w[k])
    /\ \A c \in calls :
          LET w == StreamOf(c.player_id, c.seed, 19)
          IN  \A k \in 1..19 : c.voice[C16_Order[k]] = ParameterOf(k, w[k])

\* A call with an even roll has drawn all 19 parameters with 19 permutations, the
\* last of them sex = 1, and its first two parameters differ from their minimum.
C16_Witness ==
    /\ gen_call # None
    /\ gen_call[1].seed = U64(0)
    /\ Len(drawn) = 19
    /\ gen_perms = 19
    /\ drawn[19] = 1
    /\ drawn[1] # FIELD_MIN("average_pitch")
    /\ drawn[2] # FIELD_MIN("assertiveness")

\* C20: the profile depends on the arguments only through identity XOR roll: two
\* returned calls whose identity XOR roll agree returned the same profile.
C20_XorOnly ==
    \A c1, c2 \in calls :
        XOR64(c1.player_id, c1.seed) = XOR64(c2.player_id, c2.seed) => c1.voice = c2.voice

\* Two calls with different identities and different rolls but the same identity
\* XOR roll have returned, and a call with another identity XOR roll returned
\* another profile.
C20_Witness ==
    /\ \E c1, c2 \in calls :
          /\ c1.player_id # c2.player_id
          /\ c1.seed # c2.seed
          /\ XOR64(c1.player_id, c1.seed) = XOR64(c2.player_id, c2.seed)
          /\ c1.voice = c2.voice
    /\ \E c1, c2 \in calls : c1.voice # c2.voice

\* The parameters on which the two presets agree.
AgreedFields == {f \in FieldNames : PAUL_VOICE[f] = WENDY_VOICE[f]}

\* C25: every parameter on which PAUL_VOICE and WENDY_VOICE agree has a range of one
\* value and is the same in every profile generate returns: hat_rise = 18,
\* head_size = 100, laryngealization = 0, pitch_range = 100, richness = 70 and
\* sex = 1, for every (identity, roll).
C25_AgreedFieldsFixed ==
    /\ AgreedFields =
           {"hat_rise", "head_size", "laryngealization", "pitch_range", "richness", "sex"}
    /\ \A f \in AgreedFields : FIELD_MIN(f) = FIELD_MAX(f)
    /\ \A c \in calls :
           /\ \A f \in AgreedFields : c.voice[f] = PAUL_VOICE[f]
           /\ c.voice.hat_rise = 18
           /\ c.voice.head_size = 100
           /\ c.voice.laryngealization = 0
           /\ c.voice.pitch_range = 100
           /\ c.voice.richness = 70
           /\ c.voice.sex = 1

\* Two calls have returned profiles that differ, in parameters on which the
\* presets differ and in no other.
C25_Witness ==
    \E c1, c2 \in calls :
        /\ \E f \in FieldNames \ AgreedFields : c1.voice[f] # c2.voice[f]
        /\ \A f \in AgreedFields : c1.voice[f] = c2.voice[f]
        /\ c1.voice.sex = 1

----------------------------------------------------------------------------
(* Claims about get_wav_duration, under SpecWavDuration *)

WavDone == wav.pc = "done"

\* The function found a chunk header tagged `data`: the last header read.
DataHeaderFound == Len(wav.header) = 8 /\ SubSeq(wav.header, 1, 4) = TagData

\* The buffer was built as a well-formed PCM WAV (extra chunks aside): every tag
\* in place, a fmt chunk of 16 or 18 bytes with format code 1 and a positive
\* sample rate and block alignment, and a data chunk with all its payload.
WellFormedPcm(in) ==
    /\ in.defect = "none"
    /\ in.fmt_size >= 16
    /\ in.audio_format = 1
    /\ in.format.sample_rate > 0
    /\ in.format.block_align > 0
    /\ in.data.present
    /\ in.data.payload = in.data.size

\* Every extra chunk is followed by as many payload bytes as it declares.
ExtrasWhole(in) == \A k \in 1..Len(in.extras) : in.extras[k].payload = in.extras[k].size

\* C4: get_wav_duration returns a value for every buffer and never panics, also
\* when the fmt chunk declares fewer than 14 bytes.
C4_NeverPanics == wav.result.kind # "panic"

\* C5: the chunk scan terminates: the call ends; while it scans, every header it
\* has read took 8 more bytes of the buffer, so that the cursor is inside the
\* buffer and at least 8 bytes in for every header read; and it returns a duration
\* only with a `data` header read from inside the buffer, so that a buffer exhausted
\* before one is found gives a failure.
C5_ScanTerminates ==
    /\ <>WavDone
    /\ [](wav.pc = "scan" =>
            /\ wav.cursor <= BufLen(wav_bytes)
            /\ 8 * (wav.scans + 1) <= wav.cursor)
    /\ [](wav.result.kind = "Some" =>
            /\ DataHeaderFound
            /\ wav.cursor <= BufLen(wav_bytes)
            /\ wav.header = ReadExact(wav_bytes, wav.cursor - 8, 8).data)

\* The scan skipped a chunk whose declared length reaches past the end of the
\* buffer, after at least one chunk it could skip, and the call failed.
C5_Witness ==
    /\ WavDone
    /\ wav.scans >= 2
    /\ wav.cursor > BufLen(wav_bytes)
    /\ wav.result = WavNone

NotRiff(buf) == BufLen(buf) < 4 \/ ReadExact(buf, 0, 4).data # TagRIFF

\* A container with every tag in place and a whole fmt chunk whose format code is
\* not 1.
OtherCodec(in) == in.defect = "none" /\ in.fmt_size >= 16 /\ in.audio_format # 1

C7_TruncatedRejected ==
    (/\ WavDone
     /\ DataHeaderFound
     /\ wav.cursor <= BufLen(wav_bytes)
     /\ u32_from_le_bytes(SubSeq(wav.header, 5, 8)) > BufLen(wav_bytes) - wav.cursor)
        => wav.result.kind # "Some"

\* C8: extra chunks that are not tagged `data`, each with the payload it declares,
\* between fmt and data of a well-formed PCM WAV do not change the duration: the
\* call returns what get_wav_duration returns for the buffer without them.
C8_ChunkSkipping ==
    (WavDone /\ WellFormedPcm(wav_input) /\ ExtrasWhole(wav_input)) =>
        /\ wav.result.kind = "Some"
        /\ wav.result = get_wav_duration(BuildWav([wav_input EXCEPT !.extras = <<>>]))

\* A call on a well-formed PCM WAV with two extra chunks, one of them of 5 bytes,
\* has returned a duration.
C8_Witness ==
    /\ WavDone
    /\ WellFormedPcm(wav_input)
    /\ ExtrasWhole(wav_input)
    /\ Len(wav_input.extras) = 2
    /\ \E k \in 1..2 : wav_input.extras[k].size = 5
    /\ wav.scans = 2
    /\ wav.result.kind = "Some"

\* C9: for a well-formed PCM WAV the duration is the declared data size divided by
\* the block alignment divided by the sample rate (as a fraction num/den:
\* num * align * rate = size * den), and 88200 bytes at 44100 Hz and block
\* alignment 2 are exactly 1 second.
C9_DurationFormula ==
    (WavDone /\ WellFormedPcm(wav_input) /\ ExtrasWhole(wav_input)) =>
        /\ wav.result.kind = "Some"
        /\ wav.result.value.class = "finite"
        /\ wav.result.value.num * (wav_input.format.block_align * wav_input.format.sample_rate)
               = wav_input.data.size * wav.result.value.den
        /\ (/\ wav_input.data.size = 88200
            /\ wav_input.format.block_align = 2
            /\ wav_input.format.sample_rate = 44100) => wav.result.value = F64(1, 1)

\* The call on the 44100 Hz, block alignment 2, 88200 data bytes WAV has returned
\* 1 second.
C9_Witness ==
    /\ WavDone
    /\ WellFormedPcm(wav_input)
    /\ wav_input.extras = <<>>
    /\ wav_input.data.size = 88200
    /\ wav_input.format = [sample_rate |-> 44100, block_align |-> 2]
    /\ wav.result = WavSome(F64(1, 1))

----------------------------------------------------------------------------
(* Claims about normalize_wav_volume, under SpecNormalize *)

\* C10: normalize_wav_volume never evaluates a division whose denominator is
\* zero: no sample is divided by a peak of 0.
C10_NoZeroDivisor == \A k \in 1..Len(norm.divisors) : norm.divisors[k] # 0

NormDone == norm.pc = "done"

\* The call returned Ok(wav).
NormOk == NormDone /\ norm.result # None /\ norm.result[1].ok

\* The samples of the WAV returned.
NormOut == norm.result[1].value.samples

\* The argument is a WAV that hound reads, each of its samples decoding to v.
AllSamples(v) ==
    /\ norm_input.readable
    /\ \A k \in 1..Len(norm_input.samples) : norm_input.samples[k] = Ok(v)

\* C11: normalize_wav_volume of a valid 16-bit PCM WAV whose samples are all zero
\* returns success with a WAV of the same number of samples, all zero.
C11_SilenceStaysSilent ==
    (NormDone /\ AllSamples(0)) =>
        /\ NormOk
        /\ Len(NormOut) = Len(norm_input.samples)
        /\ \A k \in 1..Len(NormOut) : NormOut[k] = 0

\* A call on a WAV of at least two samples, all zero, has returned.
C11_Witness ==
    /\ NormOk
    /\ AllSamples(0)
    /\ Len(norm_input.samples) >= 2
    /\ Len(NormOut) = Len(norm_input.samples)

\* max(0, max sample) and min(0, min sample) of a sequence of samples
PeakPositive(xs) ==
    CHOOSE m \in {0} \cup {xs[k] : k \in 1..Len(xs)} : \A k \in 1..Len(xs) : xs[k] <= m

PeakNegative(xs) ==
    CHOOSE m \in {0} \cup {xs[k] : k \in 1..Len(xs)} : \A k \in 1..Len(xs) : xs[k] >= m

\* C12: every sample s > 0 is output as s / peak_positive * 32767 truncated toward
\* zero, every sample s <= 0 (peak_negative < 0) as s / peak_negative * (-32768)
\* truncated toward zero; every output is in [-32768, 32767], the largest positive
\* input maps to 32767 and the most negative to -32768, each side by its own peak.
C12_TwoSidedScaling ==
    NormOk =>
        LET xs == norm.samples
            pp == PeakPositive(xs)
            pn == PeakNegative(xs)
        IN  /\ Len(NormOut) = Len(xs)
            /\ \A k \in 1..Len(xs) :
                /\ xs[k] > 0 => NormOut[k] = (xs[k] * 32767) \div pp
                /\ (xs[k] <= 0 /\ pn < 0) => NormOut[k] = -(((-xs[k]) * 32768) \div (-pn))
                /\ NormOut[k] \in -32768..32767
                /\ (xs[k] > 0 /\ xs[k] = pp) => NormOut[k] = 32767
                /\ (xs[k] < 0 /\ xs[k] = pn) => NormOut[k] = -32768

\* A WAV with a positive sample below the positive peak, scaled to a value that
\* is neither itself nor a bound, and a negative peak that is not -32768, has been
\* normalized.
C12_Witness ==
    /\ NormOk
    /\ \E k \in 1..Len(norm.samples) :
        /\ norm.samples[k] > 0
        /\ norm.samples[k] < PeakPositive(norm.samples)
        /\ NormOut[k] \notin {norm.samples[k], 32767}
    /\ \E k \in 1..Len(norm.samples) :
        /\ norm.samples[k] = PeakNegative(norm.samples)
        /\ norm.samples[k] \in -32767..-1
        /\ NormOut[k] = -32768

\* The largest sample is 32767 and the smallest -32768.
FullyNormalized(xs) == PeakPositive(xs) = 32767 /\ PeakNegative(xs) = -32768

\* C13: normalize_wav_volume is the identity on already-normalized input: with a
\* largest sample of 32767 and a smallest of -32768 every output sample equals
\* the input sample.
C13_NormalizedFixpoint ==
    (NormOk /\ FullyNormalized(norm.samples)) => NormOut = norm.samples

\* A fully normalized WAV that also holds a sample strictly between the peaks
\* and other than 0 has been normalized.
C13_Witness ==
    /\ NormOk
    /\ FullyNormalized(norm.samples)
    /\ \E k \in 1..Len(norm.samples) : norm.samples[k] \in {-100, -3, 5, 200}
    /\ NormOut = norm.samples

\* C14: normalize_wav_volume returns an error whenever decoding fails: a buffer
\* that hound does not read, or in which a sample fails to decode, yields an
\* error and never a WAV.
C14_DecodeErrorsPropagate ==
    (/\ NormDone
     /\ \/ ~norm_input.readable
        \/ \E k \in 1..Len(norm_input.samples) : ~norm_input.samples[k].ok)
        => ~norm.result[1].ok

\* The sign of an integer.
Sign(x) == IF x > 0 THEN 1 ELSE IF x < 0 THEN -1 ELSE 0

\* The positions of the input whose sample decodes.
Decoded == {k \in 1..Len(norm_input.samples) : norm_input.samples[k].ok}

\* C23: on success normalize_wav_volume returns a WAV with the format spec of the
\* input and as many samples as the input, in the same order: each output sample
\* has the sign of the input sample at its position, and a sample that is not
\* smaller than another in the input is not smaller in the output.
C23_SameShape ==
    NormOk =>
        /\ norm.result[1].value.spec = norm_input.spec
        /\ Len(NormOut) = Len(norm_input.samples)
        /\ \A k \in Decoded : Sign(NormOut[k]) = Sign(norm_input.samples[k].value)
        /\ \A j, k \in Decoded :
                norm_input.samples[j].value <= norm_input.samples[k].value
                    => NormOut[j] <= NormOut[k]

\* A stereo WAV of three samples of different signs, none of them at a peak of the
\* sample type, has been normalized: the amplitudes differ.
C23_Witness ==
    /\ NormOk
    /\ norm_input.spec.channels = 2
    /\ Len(norm_input.samples) = 3
    /\ Decoded = 1..3
    /\ {norm_input.samples[k].value : k \in 1..3} = {-100, 5, 200}
    /\ \A k \in 1..3 : NormOut[k] # norm_input.samples[k].value

----------------------------------------------------------------------------
(* Claims about VoiceManager, under SpecVoiceManager *)

\* A set_roll(id, _) call has started and not returned.
SetRollInProgress(id) ==
    \E t \in Tasks : tasks[t].op = "set_roll" /\ tasks[t].id = id

\* The roll stored for id, or 0 if none is.
StoredRoll(id) == IF id \in DOMAIN rolls THEN rolls[id] ELSE U64(0)

CacheCoherent ==
    \A id \in PlayerIds :
        (~SetRollInProgress(id) /\ id \in DOMAIN voices)
            => voices[id] = generate(id, StoredRoll(id))

\* A get_voice(id) that returns while no set_roll for id is in progress returns
\* the profile of the roll stored for id.
GetVoiceCurrent ==
    \A t \in Tasks :
        (/\ tasks[t].op = "get_voice"
         /\ tasks'[t] = TaskDone
         /\ ~SetRollInProgress(tasks[t].id))
            => vm_returned'[1].ret = generate(tasks[t].id, StoredRoll(tasks[t].id))

\* C1: in every interleaving of get_voice and set_roll calls, whenever no set_roll
\* for id is in progress a profile cached for id is generate(id, R), R the roll
\* stored for id or 0; and a get_voice(id) returning then (so one that starts after
\* set_roll(id, r) has returned) yields that profile, never one of an older roll.
C1_CacheCoherence == []CacheCoherent /\ [][GetVoiceCurrent]_vars

\* For an id that had no roll when the client started: with a roll r # 0 stored
\* for id (by a set_roll, then) and no set_roll for id in progress, a get_voice(id)
\* has returned the cached generate(id, r), which is not the profile of roll 0.
C1_Witness ==
    /\ vm_returned # None
    /\ vm_returned[1].op = "get_voice"
    /\ vm_returned[1].task > 1
    /\ \A loaded \in LoadedRolls : loaded = None \/ vm_returned[1].id \notin DOMAIN loaded[1]
    /\ LET id == vm_returned[1].id
       IN  /\ ~SetRollInProgress(id)
           /\ StoredRoll(id) # U64(0)
           /\ rolls_file = Some(rolls)
           /\ vm_returned[1].ret = generate(id, StoredRoll(id))
           /\ vm_returned[1].ret # generate(id, U64(0))
           /\ MapGet(voices, id) = Some(vm_returned[1].ret)

----------------------------------------------------------------------------
(* Claims about VoiceAllocator, under SpecVoiceAllocator *)

\* The call this step makes, if it makes one.
AllocStep(op) ==
    /\ Len(alloc_history') = Len(alloc_history) + 1
    /\ alloc_history'[Len(alloc_history')].op = op

StepUser == alloc_history'[Len(alloc_history')].user_id

StepRet == alloc_history'[Len(alloc_history')].ret

\* remove(user) deletes the entry of user and nothing else.
RemoveFrame ==
    AllocStep("remove") =>
        /\ alloc'.next_voice_index = alloc.next_voice_index
        /\ alloc'.voices = alloc.voices
        /\ DOMAIN alloc'.user_voices = (DOMAIN alloc.user_voices) \ {StepUser}
        /\ \A u \in DOMAIN alloc'.user_voices : alloc'.user_voices[u] = alloc.user_voices[u]

\* get_or_insert for a user without an entry returns the palette entry at the
\* cursor.
InsertAtCursor ==
    (/\ AllocStep("get_or_insert")
     /\ StepUser \notin DOMAIN alloc.user_voices
     /\ alloc.voices # <<>>)
        => StepRet = Some(alloc.voices[alloc.next_voice_index + 1])

\* C17: remove(user) only deletes the user's entry: next_voice_index, the palette
\* and every other user's entry are unchanged; so a user who is removed and passed
\* to get_or_insert again gets the palette entry at the current cursor.
C17_RemoveOnlyDeletes == [][RemoveFrame /\ InsertAtCursor]_vars

\* A user got a voice, was removed while another user kept an entry, and got
\* another voice than before from the next get_or_insert.
C17_Witness ==
    \E i, j, k \in 1..Len(alloc_history) :
        /\ i < j /\ j < k
        /\ alloc_history[i].op = "get_or_insert"
        /\ alloc_history[j].op = "remove"
        /\ alloc_history[k].op = "get_or_insert"
        /\ alloc_history[j].user_id = alloc_history[i].user_id
        /\ alloc_history[k].user_id = alloc_history[i].user_id
        /\ alloc_history[i].ret # None
        /\ alloc_history[k].ret # None
        /\ alloc_history[k].ret # alloc_history[i].ret
        /\ \E u \in DOMAIN alloc.user_voices : u # alloc_history[i].user_id

\* The users with a mapping after the calls of history h, and the number of
\* get_or_insert calls of h that found no mapping.
RECURSIVE MappedAfter(_)
MappedAfter(h) ==
    IF h = <<>> THEN {}
    ELSE LET before == MappedAfter(SubSeq(h, 1, Len(h) - 1))
             call == h[Len(h)]
         IN  IF call.op = "get_or_insert" THEN before \cup {call.user_id}
             ELSE IF call.op = "remove" THEN before \ {call.user_id}
             ELSE before

RECURSIVE Misses(_)
Misses(h) ==
    IF h = <<>> THEN 0
    ELSE LET rest == SubSeq(h, 1, Len(h) - 1)
             call == h[Len(h)]
         IN  Misses(rest) +
                 (IF call.op = "get_or_insert" /\ call.user_id \notin MappedAfter(rest)
                  THEN 1 ELSE 0)

\* With n voices the cursor is in [0, n), at the number of misses modulo n.
CursorInPalette ==
    alloc.voices # <<>> =>
        /\ alloc.next_voice_index \in 0..(Len(alloc.voices) - 1)
        /\ alloc.next_voice_index = Misses(alloc_history) % Len(alloc.voices)

\* The k-th get_or_insert that finds no mapping assigns voices[k mod n] and
\* advances the cursor by one modulo n.
MissRotates ==
    (/\ AllocStep("get_or_insert")
     /\ alloc.voices # <<>>
     /\ StepUser \notin MappedAfter(alloc_history))
        => /\ StepRet = Some(alloc.voices[(Misses(alloc_history) % Len(alloc.voices)) + 1])
           /\ alloc'.user_voices = MapInsert(alloc.user_voices, StepUser, StepRet[1])
           /\ alloc'.next_voice_index = (alloc.next_voice_index + 1) % Len(alloc.voices)

\* A get_or_insert for a user with a mapping returns the voice the user was last
\* assigned and changes nothing.
HitReturnsSame ==
    (/\ AllocStep("get_or_insert")
     /\ alloc.voices # <<>>
     /\ StepUser \in MappedAfter(alloc_history))
        => /\ \E i \in 1..Len(alloc_history) :
                /\ alloc_history[i].op = "get_or_insert"
                /\ alloc_history[i].user_id = StepUser
                /\ StepUser \notin MappedAfter(SubSeq(alloc_history, 1, i - 1))
                /\ \A j \in (i + 1)..Len(alloc_history) :
                        ~(alloc_history[j].op = "remove" /\ alloc_history[j].user_id = StepUser)
                /\ StepRet = alloc_history[i].ret
           /\ alloc' = alloc

\* C22: with a palette of n > 0 voices, after any get_or_insert and remove calls the
\* cursor is in [0, n); the k-th get_or_insert (from 0) that finds no mapping assigns
\* voices[k mod n] and advances the cursor by one modulo n; a get_or_insert for a
\* user who has a mapping returns that voice and leaves cursor and mappings alone.
C22_RoundRobin == []CursorInPalette /\ [][MissRotates /\ HitReturnsSame]_vars

\* With two voices, a third user without a mapping has got the first voice again,
\* and a user with a mapping has asked again.
C22_Witness ==
    /\ Len(alloc.voices) = 2
    /\ Misses(alloc_history) = 3
    /\ \E i \in 1..Len(alloc_history) :
        /\ alloc_history[i].op = "get_or_insert"
        /\ alloc_history[i].user_id \in MappedAfter(SubSeq(alloc_history, 1, i - 1))

----------------------------------------------------------------------------
(* Claims about the file of rolls, under SpecVoiceManagerWritten *)

\* No set_roll call has started and not returned.
NoSetRollInProgress == \A t \in Tasks : tasks[t].op # "set_roll"

\* The file holds the map in memory; without a file nothing was ever set.
FileCurrent == IF rolls_file = None THEN rolls = EmptyMap ELSE rolls_file = Some(rolls)

\* A write of the file writes the map as it is in memory at the write.
WritesCurrentMap == rolls_file' # rolls_file => rolls_file' = Some(rolls)

\* C24: with file writes succeeding, in every interleaving of set_roll calls, once
\* no set_roll is in progress the map last written to data/rolls.json is the map in
\* memory, and no write persists a map that lacks an update applied in memory.
C24_FileCurrent == [](NoSetRollInProgress => FileCurrent) /\ [][WritesCurrentMap]_vars

\* Two set_roll calls for different ids have overlapped, the one made first
\* returning last: the file holds both rolls, neither of them a loaded one.
C24_Witness ==
    /\ NoSetRollInProgress
    /\ vm_calls = 2
    /\ vm_returned # None
    /\ vm_returned[1].op = "set_roll"
    /\ vm_returned[1].task = 1
    /\ rolls_file = Some(rolls)
    /\ \A id \in PlayerIds : id \in DOMAIN rolls
    /\ \A loaded \in LoadedRolls :
            loaded # None => \A id \in DOMAIN loaded[1] : rolls[id] # loaded[1][id]

----------------------------------------------------------------------------
(* Claims about all VoiceManager operations, under SpecVoiceManagerOps *)

\* The tasks at a statement that reads or writes the map of voices, and of rolls.
VoicesAccessors ==
    {t \in Tasks : tasks[t].pc \in
        {"get_voice_lookup", "get_voice_lock_rolls", "get_voice_generate", "clear_voice_remove"}}

RollsAccessors ==
    {t \in Tasks : tasks[t].pc \in
        {"get_voice_generate", "set_roll_insert", "save_rolls_serialize", "save_rolls_write",
         "load_rolls_replace"}}

\* Task t waits for the lock of voices, or of rolls.
WaitsForVoices(t) == tasks[t].pc \in {"get_voice", "clear_voice"}

WaitsForRolls(t) ==
    tasks[t].pc \in {"get_voice_lock_rolls", "set_roll", "save_rolls", "load_rolls_lock"}

\* A call is running.
Running(t) == tasks[t].pc \notin {"idle", "done"}

\* C19: any concurrently running get_voice, clear_voice, set_roll, save_rolls and
\* load_rolls calls are deadlock-free and every call eventually returns under
\* fair scheduling: no task waits for the voices lock while holding the rolls
\* lock, at most one task at a time accesses each map, while a call is running
\* some task can take a step, and every call made returns.
C19_DeadlockFree ==
    /\ [](\A t \in Tasks : WaitsForVoices(t) => rolls_lock # Some(t))
    /\ [](Cardinality(VoicesAccessors) <= 1 /\ Cardinality(RollsAccessors) <= 1)
    /\ []((\E t \in Tasks : Running(t)) => \E t \in Tasks : ENABLED VMOpsStep(t))
    /\ \A t \in Tasks : Running(t) ~> (tasks[t] = TaskDone)

\* A get_voice holding the voices lock waits for the rolls lock, which a
\* load_rolls of another task holds.
C19_Witness ==
    \E t, u \in Tasks :
        /\ tasks[t].op = "get_voice"
        /\ WaitsForRolls(t)
        /\ voices_lock = Some(t)
        /\ tasks[u].op = "load_rolls"
        /\ rolls_lock = Some(u)

----------------------------------------------------------------------------
(* Claims about the event handlers, under SpecHandlers *)

\* Task m, handling a message, holds the lock of guild g's Call and waits for the
\* guild_users lock.
MsgWaitsForUsers(m, g) ==
    /\ handlers[m].kind = "message"
    /\ handlers[m].pc = "lock_users"
    /\ handlers[m].guild = g
    /\ call_lock[g] = Some(m)
    /\ guild_users_lock # None

\* Task v, handling a voice state update, holds the guild_users lock and waits
\* for the lock of guild g's Call.
VsuWaitsForCall(v, g) ==
    /\ handlers[v].kind = "voice_state_update"
    /\ handlers[v].pc = "lock_call"
    /\ handlers[v].guild = g
    /\ guild_users_lock = Some(v)
    /\ call_lock[g] # None

\* C18: no interleaving of a message handler and a voice_state_update handler for
\* the same guild reaches a state in which the first holds the guild's call lock
\* and waits for the guild_users lock while the second holds the guild_users lock
\* and waits for that call lock.
C18_NoLockCycle ==
    \A g \in Guilds : \A m, v \in Handlers : ~(MsgWaitsForUsers(m, g) /\ VsuWaitsForCall(v, g))

\* The last step was handler.play for a message (main.rs:205).
Played == hd_out # None /\ hd_out[1].event = "play"

Speakers(g) == EntryOrEmpty(guild_users, g)

\* This step asks the Call of guild g to leave (main.rs:255).
LeaveRequested(g) == hd_out' # None /\ hd_out'[1].event = "leave" /\ hd_out'[1].guild = g

\* The Call of g is asked to leave only with no speaker of g recorded.
LeaveOnlyWhenEmpty == \A g \in Guilds : LeaveRequested(g) => Speakers(g) = {}

\* A speaker is removed only by a voice state update of theirs without a channel.
RemovedOnlyByDisconnect ==
    \A g \in Guilds : \A u \in Speakers(g) :
        u \notin EntryOrEmpty(guild_users', g) =>
            \E h \in Handlers :
                /\ handlers[h].kind = "voice_state_update"
                /\ handlers[h].pc = "update"
                /\ handlers[h].disconnect
                /\ handlers[h].guild = g
                /\ handlers[h].user = u
                /\ handlers'[h] # handlers[h]

\* A speaker is added only by the step that plays a message of theirs.
AddedOnlyByPlay ==
    \A g \in Guilds : \A u \in EntryOrEmpty(guild_users', g) \ Speakers(g) :
        /\ hd_out' # None
        /\ hd_out'[1].event = "play"
        /\ hd_out'[1].guild = g
        /\ hd_out'[1].user = u

\* The handler of a voice state update has found the speaker set of its guild
\* empty after its removal step, with a Call for the guild.
FoundEmpty(h) == handlers[h].kind = "voice_state_update" /\ handlers[h].pc = "lock_call"

\* C26: a voice_state_update for guild g asks the bot to leave g's call if and only
\* if g's recorded speaker set is empty after the update's removal step; a speaker
\* is removed only by an update without a channel and added only when a message of
\* theirs is played; so an update that finds the set empty goes on to leave, and
\* no leave is asked for while a speaker is recorded.
C26_LeavesWhenEmpty ==
    /\ [][LeaveOnlyWhenEmpty /\ RemovedOnlyByDisconnect /\ AddedOnlyByPlay]_vars
    /\ \A h \in Handlers : FoundEmpty(h) ~> (handlers[h] = HandlerDone)

====
